---- MODULE Spec2Model ----
(***************************************************************************)
(* Storefront homepage: the route loader that fans four Storefront API     *)
(* queries out and in, and the section components (hero, product           *)
(* showcase, reviews) that resolve a generic metaobject into a view model. *)
(*                                                                         *)
(* JavaScript values are represented as follows.                           *)
(*   - an object is a record; a property the object does not carry is a    *)
(*     field the record does not have ("p" \notin DOMAIN o);               *)
(*   - null / undefined in an object position is the record Null;          *)
(*   - undefined in a string position is the string Undefined;             *)
(*   - an array is a sequence; undefined in an array position is the       *)
(*     sequence UndefinedList.                                             *)
(***************************************************************************)
EXTENDS Integers, Sequences, FiniteSets, TLC

VARIABLES
    locale,       \* loader: params.locale of the request (Undefined when the route has none)
    nodeEnv,      \* loader: process.env.NODE_ENV
    pc,           \* loader: where the request is in loader / loadCriticalData / Homepage
    issued,       \* loader: how many of the four storefront.query calls have been made
    query,        \* loader: the promise of each query: idle, pending, fulfilled or rejected
    response,     \* loader: what the loader returned or threw (NoResponse before)
    console,      \* loader: the console.error messages written so far
    page,         \* loader: what Homepage rendered from the loader data (NoPage before)
    metaobject,   \* resolver: the metaobject handed to the section components
    view,         \* resolver: what the section rendered last produced (NoView after an accessor call)
    lookup,       \* resolver: the accessor call made last and what it returned (NoLookup after a render)
    currentIndex,     \* ProductCarousel: useState(0), the index of the centre product
    prevIndex,        \* ProductCarousel: useState(0), the index shown before the last move
    scrollDirection,  \* ProductCarousel: useState('down')
    isMounted,        \* ProductCarousel, HeroParallax: useState(false)
    lastScrollY,      \* ProductCarousel: lastScrollY.current
    scrollTimeout,    \* ProductCarousel: the 50 ms timer of scrollTimeout.current, if one is pending
    effectStale,      \* ProductCarousel: scrollDirection changed and the scroll effect has not re-run yet
    hoveredColumn,    \* ReviewsSection: useState(null), NoColumn for null
    isMobile,         \* HeroParallax: useState(false)
    innerWidth,       \* HeroParallax: window.innerWidth
    resizeTimeout,    \* HeroParallax: the 150 ms timer of debouncedCheck is pending
    strayTimers,      \* browser: timers and frames still pending that no ref or closure holds
    unmounted,        \* the mounted component has been removed and its effect cleanups have run
    ticking,          \* HeroParallax: the parallax effect's local flag
    rafRef,           \* HeroParallax: the animation frame of rafRef.current, if one is pending
    pageYOffset,      \* HeroParallax: window.pageYOffset
    transform,        \* HeroParallax: the style.transform written last (NoTransform before)
    parallaxIsMobile, \* HeroParallax: the isMobile the parallax effect last ran with
    fetchers,         \* Header: the router's fetchers, each idle or in flight with its cart action
    isCartOpen,       \* Header: isOpen of the cart drawer's useDrawer()
    isMenuOpen,       \* Header: isOpen of the menu drawer's useDrawer()
    cartEffectPending, \* Header: a render was committed and the cart drawer effect has not run yet
    requests          \* server: the homepage requests being served together, each with its own
                      \* url, position, promises and response (none while one request is followed)

loaderVars == <<locale, nodeEnv, pc, issued, query, response, console, page>>

resolverVars == <<metaobject, view, lookup>>

timerVars == <<strayTimers, unmounted>>

parallaxVars == <<ticking, rafRef, pageYOffset, transform, parallaxIsMobile>>

uiVars == <<currentIndex, prevIndex, scrollDirection, isMounted, lastScrollY, scrollTimeout,
            effectStale, hoveredColumn, isMobile, innerWidth, resizeTimeout, timerVars,
            parallaxVars>>

headerVars == <<fetchers, isCartOpen, isMenuOpen, cartEffectPending>>

vars == <<loaderVars, resolverVars, uiVars, headerVars, requests>>

(***************************************************************************)
(* Bounds of the model.                                                    *)
(***************************************************************************)
MaxFields == 2    \* longest field list of a sampled metaobject
MaxNodes == 3     \* longest references.nodes list of a sampled field
MaxFetchers == 3  \* fetchers the header is followed with

(***************************************************************************)
(* JavaScript values.                                                      *)
(***************************************************************************)
Null == [null |-> TRUE]
Undefined == "<undefined>"

\* ToBoolean of a string-position value: undefined and '' are falsy.
Truthy(s) == s # Undefined /\ s # ""

\* o.p for a string-valued property p of an object o.
Str(o, p) == IF p \in DOMAIN o THEN o[p] ELSE Undefined

\* ToBoolean(o.p) for an object-valued property p of an object o.
HasObj(o, p) == p \in DOMAIN o /\ o[p] # Null

\* undefined in an array position (no array of the program holds this entry).
UndefinedList == <<[undefined |-> TRUE]>>

\* a || b on string-position values.
OrElse(a, b) == IF Truthy(a) THEN a ELSE b

\* The sequences over S of length at most n.
SeqUpTo(S, n) == UNION {[1..k -> S] : k \in 0..n}

(***************************************************************************)
(* Field accessors of the section components.  The three components carry *)
(* the same text for getFieldValue and getFieldReferences; HeroParallax    *)
(* adds getFieldReference.  They are only ever evaluated on a metaobject   *)
(* that is an object (see HeroParallax and Homepage below).                *)
(***************************************************************************)

\* (f) => f?.key === key
KeyMatches(f, key) == f # Null /\ "key" \in DOMAIN f /\ f.key = key

\* Array.prototype.find: the index of the first element the callback accepts, 0 if none.
RECURSIVE FindFrom(_, _, _)
FindFrom(fields, key, i) ==
    IF i > Len(fields) THEN 0
    ELSE IF KeyMatches(fields[i], key) THEN i
    ELSE FindFrom(fields, key, i + 1)

\* A plausible slip: the scan keeps the last match instead of stopping at the first.
RECURSIVE FindLastFrom(_, _, _)
FindLastFrom(fields, key, i) ==
    IF i = 0 THEN 0
    ELSE IF KeyMatches(fields[i], key) THEN i
    ELSE FindLastFrom(fields, key, i - 1)

FindFieldLast(obj, key) ==
    IF "fields" \notin DOMAIN obj THEN Null
    ELSE LET i == FindLastFrom(obj.fields, key, Len(obj.fields))
         IN  IF i = 0 THEN Null ELSE obj.fields[i]

\* obj.fields?.find((f) => f?.key === key): the field, or Null for undefined.
FindField(obj, key) ==
    IF "fields" \notin DOMAIN obj THEN Null
    ELSE LET i == FindFrom(obj.fields, key, 1)
         IN  IF i = 0 THEN Null ELSE obj.fields[i]

\* A plausible slip: the value is returned without the "|| ''" default.
getFieldValueNoDefault(obj, key) ==
    LET f == FindField(obj, key)
    IN  IF f = Null THEN Undefined ELSE Str(f, "value")

\* metaobject.fields?.find((f) => f?.key === key)?.value || ''
getFieldValue(obj, key) ==
    LET f == FindField(obj, key)
    IN  OrElse(IF f = Null THEN Undefined ELSE Str(f, "value"), "")

\* metaobject.fields?.find((f) => f?.key === key)?.reference
getFieldReference(obj, key) ==
    LET f == FindField(obj, key)
    IN  IF f # Null /\ HasObj(f, "reference") THEN f.reference ELSE Null

\* A plausible slip: without the "|| []" default the caller gets undefined.
getFieldReferencesNoDefault(obj, key) ==
    LET f == FindField(obj, key)
    IN  IF f # Null /\ HasObj(f, "references") /\ "nodes" \in DOMAIN f.references
        THEN f.references.nodes
        ELSE UndefinedList

\* field?.references?.nodes || []
getFieldReferences(obj, key) ==
    LET f == FindField(obj, key)
    IN  IF f # Null /\ HasObj(f, "references") /\ "nodes" \in DOMAIN f.references
        THEN f.references.nodes
        ELSE <<>>

(***************************************************************************)
(* ProductCarousel: the projection of the raw reference list into the      *)
(* products of the view model, and the component's three return branches.  *)
(***************************************************************************)

\* (node) => node?.id && node?.title && node?.priceRange
ProductPredicate(node) ==
    /\ node # Null
    /\ Truthy(Str(node, "id"))
    /\ Truthy(Str(node, "title"))
    /\ HasObj(node, "priceRange")

\* product.priceRange.minVariantPrice.amount reads a property of undefined: TypeError.
ProductMapperThrows(product) == ~HasObj(product.priceRange, "minVariantPrice")

\* (product) => ({id, title, priceRange: {minVariantPrice: {amount, currencyCode}},
\*                featuredImage: product.featuredImage || null, handle})
ProductMapper(product) ==
    [id |-> Str(product, "id"),
     title |-> Str(product, "title"),
     priceRange |->
        [minVariantPrice |->
            [amount |-> Str(product.priceRange.minVariantPrice, "amount"),
             currencyCode |-> Str(product.priceRange.minVariantPrice, "currencyCode")]],
     featuredImage |->
        IF HasObj(product, "featuredImage") THEN product.featuredImage ELSE Null,
     handle |-> Str(product, "handle")]

\* A plausible slip: the predicate checks only node?.priceRange.
ProductFilterPriceOnly(productNodes) ==
    SelectSeq(productNodes, LAMBDA node : node # Null /\ HasObj(node, "priceRange"))

\* productNodes.filter(...)
ProductFilter(productNodes) == SelectSeq(productNodes, ProductPredicate)

\* productNodes.filter(...).map(...): the products, or the TypeError of the mapper.
Products(productNodes) ==
    LET kept == ProductFilter(productNodes)
    IN  IF \E i \in 1..Len(kept) : ProductMapperThrows(kept[i])
        THEN [threw |-> TRUE, items |-> <<>>]
        ELSE [threw |-> FALSE, items |-> [i \in 1..Len(kept) |-> ProductMapper(kept[i])]]

\* !metaobject?.fields
FieldsMissing(obj) == obj = Null \/ "fields" \notin DOMAIN obj

\* The component up to its return: which branch it takes and what it derived.
ProductCarousel(obj) ==
    IF FieldsMissing(obj)
    THEN [component |-> "ProductCarousel", verdict |-> "Absent",
          render |-> "product-carousel-error"]
    ELSE LET products == Products(getFieldReferences(obj, "products"))
         IN  IF products.threw
             THEN [component |-> "ProductCarousel", verdict |-> "Throws"]
             ELSE IF Len(products.items) = 0
             THEN [component |-> "ProductCarousel", verdict |-> "Empty",
                   render |-> "product-carousel-empty"]
             ELSE [component |-> "ProductCarousel", verdict |-> "Ready",
                   render |-> "product-carousel-section",
                   heading |-> OrElse(getFieldValue(obj, "heading"),
                                      "Our Featured Products"),
                   products |-> products.items]

(***************************************************************************)
(* ReviewsSection.                                                         *)
(***************************************************************************)

\* (node) => node && node.fields
ReviewPredicate(node) == node # Null /\ "fields" \in DOMAIN node

\* getReviewField: review.fields?.find((f) => f?.key === key)?.value || ''
getReviewField(review, key) ==
    LET field == FindField(review, key)
    IN  OrElse(IF field = Null THEN Undefined ELSE Str(field, "value"), "")

\* getReviewImageField: the url of the field's image reference, '' without one.
getReviewImageField(review, key) ==
    LET field == FindField(review, key)
    IN  IF field # Null /\ HasObj(field, "reference") /\ HasObj(field.reference, "image")
        THEN Str(field.reference.image, "url")
        ELSE ""

\* parseFloat on the sampled rating strings, in tenths; NaN for a string with no
\* leading number.
NaN == -1
parseFloat(s) ==
    CASE s = "5" -> 50
      [] s = "4.5" -> 45
      [] s = "3 stars" -> 30
      [] OTHER -> NaN

\* encodeURIComponent on the sampled customer names.
encodeURIComponent(s) ==
    CASE s = "Bob Ray" -> "Bob%20Ray"
      [] OTHER -> s

\* The generated avatar of a review without a customer image.
AvatarUrl(customerName) ==
    "https://ui-avatars.com/api/?name=" \o encodeURIComponent(customerName)
        \o "&background=667eea&color=fff&size=100&bold=true"

\* (review) => ({id, customerName, customerRole, customerImage, rating, reviewText})
ReviewMapper(review) ==
    LET customerName == getReviewField(review, "customer_name")
        customerImage == getReviewImageField(review, "customer_img")
    IN  [id |-> Str(review, "id"),
         customerName |-> customerName,
         customerRole |-> getReviewField(review, "customer_role"),
         customerImage |-> OrElse(customerImage, AvatarUrl(customerName)),
         rating |-> parseFloat(OrElse(getReviewField(review, "rating"), "5")),
         reviewText |-> getReviewField(review, "review_text")]

\* reviewNodes.filter(...)
ReviewFilter(reviewNodes) == SelectSeq(reviewNodes, ReviewPredicate)

\* reviewNodes.filter(...).map(...)
Reviews(reviewNodes) ==
    LET kept == ReviewFilter(reviewNodes)
    IN  [i \in 1..Len(kept) |-> ReviewMapper(kept[i])]

\* The component up to its return: which branch it takes and what it derived.
ReviewsSection(obj) ==
    IF FieldsMissing(obj)
    THEN [component |-> "ReviewsSection", verdict |-> "Absent", render |-> "null",
          consoleError |-> "[ReviewsSection] metaobject is null or has no fields"]
    ELSE LET reviews == Reviews(getFieldReferences(obj, "reviews"))
         IN  IF Len(reviews) = 0
             THEN [component |-> "ReviewsSection", verdict |-> "Empty", render |-> "null"]
             ELSE [component |-> "ReviewsSection", verdict |-> "Ready",
                   render |-> "reviews-section",
                   heading |-> OrElse(getFieldValue(obj, "heading"),
                                      "What Our Customers Say"),
                   reviews |-> reviews]

(***************************************************************************)
(* HeroParallax.  Its prop is a Metaobject, not nullable: there is no      *)
(* guard, and the first accessor reads metaobject.fields.                  *)
(***************************************************************************)

\* A plausible slip: the image is built through optional chaining whenever the
\* field has a reference, without narrowing to a reference that carries an image.
BackgroundImageUnnarrowed(backgroundImageReference) ==
    IF backgroundImageReference # Null
    THEN LET image == IF HasObj(backgroundImageReference, "image")
                      THEN backgroundImageReference.image ELSE Null
         IN  [url |-> Str(image, "url"),
              altText |-> OrElse(Str(image, "altText"), ""),
              width |-> Str(image, "width"),
              height |-> Str(image, "height")]
    ELSE Null

\* backgroundImage: the image of the reference when it carries one, null otherwise.
BackgroundImage(backgroundImageReference) ==
    IF /\ backgroundImageReference # Null
       /\ "image" \in DOMAIN backgroundImageReference
       /\ backgroundImageReference.image # Null
    THEN [url |-> Str(backgroundImageReference.image, "url"),
          altText |-> OrElse(Str(backgroundImageReference.image, "altText"), ""),
          width |-> Str(backgroundImageReference.image, "width"),
          height |-> Str(backgroundImageReference.image, "height")]
    ELSE Null

HeroParallax(obj) ==
    IF obj = Null
    THEN [component |-> "HeroParallax", verdict |-> "Throws"]
    ELSE [component |-> "HeroParallax", verdict |-> "Ready",
          render |-> "hero-parallax-section-custom",
          heading |-> getFieldValue(obj, "heading"),
          subheading |-> getFieldValue(obj, "subheading"),
          ctaText |-> getFieldValue(obj, "cta_text"),
          ctaUrl |-> getFieldValue(obj, "cta_url_new"),
          backgroundImage |-> BackgroundImage(getFieldReference(obj, "background_image"))]

(***************************************************************************)
(* Homepage: each section renders its component when its slot of the       *)
(* loader data is truthy, and a placeholder otherwise.                     *)
(***************************************************************************)
Placeholder(text) == [component |-> "Homepage", verdict |-> "Absent",
                      render |-> "section-placeholder", text |-> text]

\* A plausible slip: the hero component is rendered without the null check.
HomepageHeroUnguarded(slot) == HeroParallax(slot)

HomepageHero(slot) == IF slot # Null THEN HeroParallax(slot) ELSE Placeholder("Hero section loading...")

HomepageProducts(slot) == IF slot # Null THEN ProductCarousel(slot) ELSE Placeholder("Products loading...")

HomepageReviews(slot) == IF slot # Null THEN ReviewsSection(slot) ELSE Placeholder("Reviews loading...")

(***************************************************************************)
(* The inputs: what the Storefront API can hand back for the three         *)
(* section queries (and what a misconfigured entry looks like).            *)
(***************************************************************************)
Money == [amount |-> "120.0", currencyCode |-> "USD"]

FeaturedImage == [id |-> "img1", url |-> "shoe.jpg", altText |-> "Shoe",
                  width |-> "800", height |-> "600"]

ProductA == [id |-> "p1", title |-> "Runner", handle |-> "runner",
             priceRange |-> [minVariantPrice |-> Money],
             featuredImage |-> FeaturedImage]

ProductB == [id |-> "p2", title |-> "Court", handle |-> "court",
             priceRange |-> [minVariantPrice |-> Money],
             featuredImage |-> Null]

\* A reference that is not a Product: the "... on Product" fragment selects nothing.
NotAProduct == [handle |-> "a-page"]

ProductNoTitle == [id |-> "p3", title |-> "", handle |-> "untitled",
                   priceRange |-> [minVariantPrice |-> Money]]

ProductNoPriceRange == [id |-> "p4", title |-> "Trail", handle |-> "trail"]

\* id, title and a priceRange object, but no minVariantPrice.
ProductNoMinPrice == [id |-> "p5", title |-> "Slide", handle |-> "slide",
                      priceRange |-> [maxVariantPrice |-> Money]]

\* A price without amount and currency, and no handle.
ProductBarePrice == [id |-> "p6", title |-> "Boot",
                     priceRange |-> [minVariantPrice |-> [note |-> "n/a"]]]

ProductNodeSamples ==
    {Null, ProductA, ProductB, NotAProduct, ProductNoTitle, ProductNoPriceRange,
     ProductNoMinPrice, ProductBarePrice}

AvatarRef == [image |-> [url |-> "ann.jpg", altText |-> "Ann",
                         width |-> "100", height |-> "100"]]

ReviewA == [id |-> "r1", type |-> "review", handle |-> "ann",
            fields |-> << [key |-> "customer_name", value |-> "Ann"],
                          [key |-> "customer_role", value |-> "Runner"],
                          [key |-> "customer_img", value |-> "gid", reference |-> AvatarRef],
                          [key |-> "rating", value |-> "4.5"],
                          [key |-> "review_text", value |-> "Great shoes"] >>]

\* A review whose field list holds a null entry, an unparsable rating and no image.
ReviewB == [id |-> "r2", type |-> "review", handle |-> "bob",
            fields |-> << Null,
                          [key |-> "customer_name", value |-> "Bob Ray"],
                          [key |-> "rating", value |-> "great"],
                          [key |-> "review_text", value |-> "Fits well"] >>]

\* A review without customer_name.
ReviewNoName == [id |-> "r3", type |-> "review", handle |-> "anon",
                 fields |-> << [key |-> "customer_role", value |-> "Coach"],
                               [key |-> "review_text", value |-> "Solid"] >>]

\* A reference that is not a Metaobject: the fragment selects nothing of it.
ReviewNoFields == [id |-> "r4"]

ReviewNodeSamples == {Null, ReviewA, ReviewB, ReviewNoName, ReviewNoFields}

ImageRef == [image |-> [url |-> "hero.jpg", altText |-> "Hero",
                        width |-> "1920", height |-> "1080"]]

\* An image without alt text.
ImageRefNoAlt == [image |-> [url |-> "plain.jpg", width |-> "640", height |-> "480"]]

\* A reference that is not a MediaImage (a video), and a MediaImage whose image is null.
VideoRef == [sources |-> "hero.mp4"]

NullImageRef == [image |-> Null]

\* The fields a sampled metaobject is built from.
FieldSamples ==
    {Null,
     [key |-> "heading", value |-> "WELCOME"],
     [key |-> "heading", value |-> ""],
     [key |-> "heading", value |-> "SECOND"],
     [key |-> "Heading", value |-> "Upper"],
     [key |-> "cta_text", value |-> "Shop now"],
     [key |-> "products", value |-> "[gid]"],
     [key |-> "products", value |-> "", references |-> Null],
     [key |-> "products", value |-> "", references |-> [nodes |-> <<>>]],
     [key |-> "products", value |-> "", references |-> [pageInfo |-> "none"]],
     [key |-> "products", value |-> "[gid]", references |-> [nodes |-> <<ProductA, ProductB>>]],
     [key |-> "products", value |-> "[gid]", references |-> [nodes |-> <<ProductB>>]],
     [key |-> "reviews", value |-> "[gid]", references |-> [nodes |-> <<ReviewA, ReviewB>>]],
     [key |-> "background_image", value |-> "gid", reference |-> ImageRef],
     [key |-> "background_image", value |-> "gid", reference |-> ImageRefNoAlt],
     [key |-> "background_image", value |-> "gid", reference |-> VideoRef],
     [key |-> "background_image", value |-> "gid", reference |-> NullImageRef],
     [key |-> "background_image", value |-> "", reference |-> Null]}

\* The keys the accessors are called with.
Keys == {"heading", "Heading", "cta_text", "products", "reviews", "background_image",
         "subheading"}

\* Metaobjects over every short list of the sampled fields.
FieldLevelMetaobjects ==
    {[id |-> "m1", type |-> "section", handle |-> "entry", fields |-> fs] :
        fs \in SeqUpTo(FieldSamples, MaxFields)}

\* Metaobjects whose collection field holds every short list of the sampled nodes.
CollectionMetaobjects ==
    {[id |-> "m2", type |-> "section_product_showcase", handle |-> "our-products",
      fields |-> << [key |-> "heading", value |-> "WELCOME"],
                    [key |-> "products", value |-> "[gid]", references |-> [nodes |-> ns]] >>] :
        ns \in SeqUpTo(ProductNodeSamples, MaxNodes)}
    \cup
    {[id |-> "m3", type |-> "section_reviews", handle |-> "what-our-customers-say",
      fields |-> << [key |-> "reviews", value |-> "[gid]", references |-> [nodes |-> ns]] >>] :
        ns \in SeqUpTo(ReviewNodeSamples, MaxNodes)}

\* A metaobject selected without its fields.
NoFieldsMetaobject == [id |-> "m0", type |-> "section", handle |-> "bare"]

MetaobjectSamples ==
    {Null, NoFieldsMetaobject} \cup FieldLevelMetaobjects \cup CollectionMetaobjects

(***************************************************************************)
(* The resolver as a state machine: a section is handed a metaobject, and  *)
(* then its accessors are called and its components rendered.              *)
(***************************************************************************)
NoView == [component |-> "none", verdict |-> "none"]

NoLookup == [key |-> "none"]

\* The resolver's variables, at rest while a request is served.
ResolverIdle ==
    /\ metaobject = Null
    /\ view = NoView
    /\ lookup = NoLookup

\* The loader's variables, at rest while a section resolves a metaobject.
LoaderIdle ==
    /\ locale = Undefined
    /\ nodeEnv = "production"
    /\ pc = "idle"
    /\ issued = 0
    /\ query = [n \in {"shop", "hero", "products", "reviews"} |-> [status |-> "idle"]]
    /\ response = [kind |-> "none"]
    /\ console = {}
    /\ page = [rendered |-> FALSE]

\* The components' state, as useState and useRef initialise it, while nothing is mounted.
NoColumn == -1

NoTimer == [pending |-> FALSE]

IdleFetcher == [state |-> "idle"]

\* The header with both drawers closed, no cart request in flight and no effect to run.
HeaderIdle ==
    /\ fetchers = [k \in 1..MaxFetchers |-> IdleFetcher]
    /\ isCartOpen = FALSE
    /\ isMenuOpen = FALSE
    /\ cartEffectPending = FALSE

NoFrame == [pending |-> FALSE]

NoTransform == [written |-> FALSE]

\* No timer or frame is pending, nothing has been written, the component is in the tree.
BrowserIdle ==
    /\ strayTimers = <<>>
    /\ unmounted = FALSE
    /\ ticking = FALSE
    /\ rafRef = NoFrame
    /\ pageYOffset = 0
    /\ transform = NoTransform
    /\ parallaxIsMobile = FALSE

UiIdle ==
    /\ currentIndex = 0
    /\ prevIndex = 0
    /\ scrollDirection = "down"
    /\ isMounted = FALSE
    /\ lastScrollY = 0
    /\ scrollTimeout = NoTimer
    /\ effectStale = FALSE
    /\ hoveredColumn = NoColumn
    /\ isMobile = FALSE
    /\ innerWidth = 1280
    /\ resizeTimeout = FALSE
    /\ BrowserIdle

ResolverInit ==
    /\ metaobject \in MetaobjectSamples
    /\ view = NoView
    /\ lookup = NoLookup
    /\ LoaderIdle
    /\ UiIdle
    /\ HeaderIdle
    /\ requests = <<>>

\* One call of each accessor of a rendered component: HeroParallax is rendered on
\* every metaobject that is an object, the other two on those with a field list.
CallAccessors(key) ==
    /\ metaobject # Null
    /\ lookup' = [key |-> key,
                  value |-> getFieldValue(metaobject, key),
                  reference |-> getFieldReference(metaobject, key),
                  references |-> getFieldReferences(metaobject, key)]
    /\ view' = NoView
    /\ UNCHANGED metaobject
    /\ UNCHANGED <<loaderVars, uiVars, headerVars, requests>>

\* Homepage renders the hero section.
RenderHero ==
    /\ view' = HomepageHero(metaobject)
    /\ lookup' = NoLookup
    /\ UNCHANGED metaobject
    /\ UNCHANGED <<loaderVars, uiVars, headerVars, requests>>

\* Homepage renders the product showcase section.
RenderProducts ==
    /\ view' = HomepageProducts(metaobject)
    /\ lookup' = NoLookup
    /\ UNCHANGED metaobject
    /\ UNCHANGED <<loaderVars, uiVars, headerVars, requests>>

\* Homepage renders the reviews section.
RenderReviews ==
    /\ view' = HomepageReviews(metaobject)
    /\ lookup' = NoLookup
    /\ UNCHANGED metaobject
    /\ UNCHANGED <<loaderVars, uiVars, headerVars, requests>>

\* ProductCarousel rendered on its own: its prop admits null and undefined.
MountProductCarousel ==
    /\ view' = ProductCarousel(metaobject)
    /\ lookup' = NoLookup
    /\ UNCHANGED metaobject
    /\ UNCHANGED <<loaderVars, uiVars, headerVars, requests>>

\* ReviewsSection rendered on its own: its prop admits null and undefined.
MountReviewsSection ==
    /\ view' = ReviewsSection(metaobject)
    /\ lookup' = NoLookup
    /\ UNCHANGED metaobject
    /\ UNCHANGED <<loaderVars, uiVars, headerVars, requests>>

ResolverNext ==
    \/ \E key \in Keys : CallAccessors(key)
    \/ RenderHero
    \/ RenderProducts
    \/ RenderReviews
    \/ MountProductCarousel
    \/ MountReviewsSection


(***************************************************************************)
(* The homepage route: loader, loadCriticalData and the Homepage component.*)
(***************************************************************************)

\* The queries in the order loadCriticalData issues them, and the slot each fills.
QueryNames == <<"shop", "hero", "products", "reviews">>

Sections == {"hero", "products", "reviews"}

\* context.storefront.i18n of the store, and the request's url.
I18n == [language |-> "EN", country |-> "US"]

RequestUrl == "https://store.example/"

\* String.prototype.toLowerCase on the sampled locales.
toLowerCase(s) ==
    CASE s = "EN-US" -> "en-us"
      [] s = "En-Us" -> "en-us"
      [] s = "FR-CA" -> "fr-ca"
      [] OTHER -> s

LocaleSamples == {Undefined, "", "en-us", "EN-US", "En-Us", "fr-ca", "FR-CA"}

\* A plausible slip: the locale is compared as written.
LocaleMismatchCaseSensitive(l) ==
    Truthy(l) /\ l # I18n.language \o "-" \o I18n.country

\* params.locale && params.locale.toLowerCase() !== `${language}-${country}`.toLowerCase()
LocaleMismatch(l) ==
    Truthy(l) /\ toLowerCase(l) # toLowerCase(I18n.language \o "-" \o I18n.country)

\* seoPayload.home({url}) of ~/lib/seo.server: taken to return a payload for the url.
SeoHome(url) == [title |-> "Home", url |-> url]

\* What each query can settle with.
Idle == [status |-> "idle"]

Pending == [status |-> "pending"]

Fulfilled(value) == [status |-> "fulfilled", value |-> value]

Rejected == [status |-> "rejected", reason |-> "fetch failed"]

FetchedShop == [name |-> "Sneaker Store", description |-> "Shoes"]

HeroEntry ==
    [id |-> "h1", type |-> "section_hero", handle |-> "welcome-to-sneaker-store",
     fields |-> << [key |-> "heading", value |-> "WELCOME"],
                   [key |-> "background_image", value |-> "gid", reference |-> ImageRef] >>]

ShowcaseEntry ==
    [id |-> "m2", type |-> "section_product_showcase", handle |-> "our-products",
     fields |-> << [key |-> "heading", value |-> "WELCOME"],
                   [key |-> "products", value |-> "[gid]",
                    references |-> [nodes |-> <<ProductA, ProductB>>]] >>]

ReviewsEntry ==
    [id |-> "m3", type |-> "section_reviews", handle |-> "what-our-customers-say",
     fields |-> << [key |-> "reviews", value |-> "[gid]",
                    references |-> [nodes |-> <<ReviewA, ReviewB>>]] >>]

FetchedEntry(q) ==
    CASE q = "hero" -> HeroEntry
      [] q = "products" -> ShowcaseEntry
      [] q = "reviews" -> ReviewsEntry

\* The settled states of query q: fulfilled with its entry, with an entry selected
\* without fields, with no entry, with no data at all, or rejected.
Outcomes(q) ==
    IF q = "shop"
    THEN {Fulfilled([shop |-> FetchedShop]), Fulfilled([shop |-> Null]), Fulfilled(Null),
          Rejected}
    ELSE {Fulfilled([metaobject |-> FetchedEntry(q)]),
          Fulfilled([metaobject |-> NoFieldsMetaobject]),
          Fulfilled([metaobject |-> Null]), Fulfilled(Null), Rejected}

Settled(result) == result.status \in {"fulfilled", "rejected"}

\* A plausible slip: Promise.all instead of Promise.allSettled rejects on the first
\* rejection, with the other queries still pending or not.
AwaitAll(q) ==
    IF \E n \in DOMAIN q : q[n].status = "rejected" THEN "rejected"
    ELSE IF \A n \in DOMAIN q : Settled(q[n]) THEN "resolved"
    ELSE "pending"

\* await Promise.allSettled([...]): resolves once every promise has settled, never rejects.
AwaitAllSettled(q) ==
    IF \A n \in DOMAIN q : Settled(q[n]) THEN "resolved" ELSE "pending"

\* A plausible slip: the shop slot is the fetched value with no fallback.
ShopSlotNoFallback(result) ==
    IF result.status = "fulfilled" /\ result.value # Null /\ "shop" \in DOMAIN result.value
    THEN result.value.shop
    ELSE Null

FallbackShop == [name |-> "Store", description |-> ""]

\* shopResult.status === 'fulfilled' && shopResult.value?.shop ? value.shop : fallback
ShopSlot(result) ==
    IF result.status = "fulfilled" /\ result.value # Null /\ HasObj(result.value, "shop")
    THEN result.value.shop
    ELSE FallbackShop

\* result.status === 'fulfilled' && result.value?.metaobject ? value.metaobject : null
SectionSlot(result) ==
    IF result.status = "fulfilled" /\ result.value # Null
          /\ HasObj(result.value, "metaobject")
    THEN result.value.metaobject
    ELSE Null

\* The value loadCriticalData returns for the settled results.
CriticalData(q, url) ==
    [shop |-> ShopSlot(q["shop"]),
     heroParallax |-> SectionSlot(q["hero"]),
     productShowcase |-> SectionSlot(q["products"]),
     reviewsSection |-> SectionSlot(q["reviews"]),
     seo |-> SeoHome(url)]

\* The console.error calls of the development-only logging block.
QueryErrorMessage(n) ==
    CASE n = "shop" -> "[Shop Query] Error:"
      [] n = "hero" -> "[Hero Parallax Query] Error:"
      [] n = "products" -> "[Product Showcase Query] Error:"
      [] n = "reviews" -> "[Reviews Section Query] Error:"

DevelopmentErrors(env, q) ==
    IF env = "development"
    THEN {QueryErrorMessage(n) : n \in {m \in DOMAIN q : q[m].status = "rejected"}}
    ELSE {}

\* A plausible slip: the loader's catch block passes the error on.
LoaderCatchRethrow(url) == [kind |-> "thrown", status |-> 500]

\* The loader's catch block: defer({shop: {name: 'Store', ...}, heroParallax: null, ...}).
LoaderCatch(url) ==
    [kind |-> "returned", status |-> 200,
     data |-> [shop |-> [name |-> "Store", description |-> ""],
               heroParallax |-> Null,
               productShowcase |-> Null,
               reviewsSection |-> Null,
               seo |-> SeoHome(url)]]

NoResponse == [kind |-> "none"]

NoPage == [rendered |-> FALSE]

\* Homepage: the three sections rendered from the loader data.
Homepage(data) ==
    [rendered |-> TRUE,
     hero |-> HomepageHero(data.heroParallax),
     products |-> HomepageProducts(data.productShowcase),
     reviews |-> HomepageReviews(data.reviewsSection)]

LoaderInit ==
    /\ locale \in LocaleSamples
    /\ nodeEnv \in {"development", "production"}
    /\ pc = "validate"
    /\ issued = 0
    /\ query = [n \in {QueryNames[i] : i \in 1..Len(QueryNames)} |-> Idle]
    /\ response = NoResponse
    /\ console = {}
    /\ page = NoPage
    /\ ResolverIdle
    /\ UiIdle
    /\ HeaderIdle
    /\ requests = <<>>

\* loader: the locale check, before anything is fetched.
ValidateLocale ==
    /\ pc = "validate"
    /\ IF LocaleMismatch(locale)
       THEN /\ response' = [kind |-> "thrown", status |-> 404]
            /\ pc' = "done"
       ELSE /\ pc' = "issue"
            /\ UNCHANGED response
    /\ UNCHANGED <<locale, nodeEnv, issued, query, console, page>>
    /\ UNCHANGED <<resolverVars, uiVars, headerVars, requests>>

\* loadCriticalData: the next context.storefront.query(...) call returns its promise.
IssueQuery ==
    /\ pc = "issue"
    /\ issued < Len(QueryNames)
    /\ issued' = issued + 1
    /\ query' = [query EXCEPT ![QueryNames[issued + 1]] = Pending]
    /\ pc' = IF issued + 1 = Len(QueryNames) THEN "await" ELSE "issue"
    /\ UNCHANGED <<locale, nodeEnv, response, console, page>>
    /\ UNCHANGED <<resolverVars, uiVars, headerVars, requests>>

\* loadCriticalData: something inside its try block throws (here the next
\* context.storefront.query(...) call, synchronously).
QueryCallThrows ==
    /\ pc = "issue"
    /\ issued < Len(QueryNames)
    /\ pc' = "lcd_catch"
    /\ UNCHANGED <<locale, nodeEnv, issued, query, response, console, page>>
    /\ UNCHANGED <<resolverVars, uiVars, headerVars, requests>>

\* The Storefront API answers a pending query, or the fetch fails.
Settle(n) ==
    /\ query[n].status = "pending"
    /\ \E outcome \in Outcomes(n) : query' = [query EXCEPT ![n] = outcome]
    /\ UNCHANGED <<locale, nodeEnv, pc, issued, response, console, page>>
    /\ UNCHANGED <<resolverVars, uiVars, headerVars, requests>>

\* loadCriticalData past its await: the slots are extracted, the development log is
\* written and the loader returns defer({...criticalData}).
AwaitQueries ==
    /\ pc = "await"
    /\ AwaitAllSettled(query) # "pending"
    /\ IF AwaitAllSettled(query) = "resolved"
       THEN /\ response' = [kind |-> "returned", status |-> 200,
                            data |-> CriticalData(query, RequestUrl)]
            /\ console' = console \cup DevelopmentErrors(nodeEnv, query)
            /\ pc' = "returned"
       ELSE /\ pc' = "lcd_catch"
            /\ UNCHANGED <<response, console>>
    /\ UNCHANGED <<locale, nodeEnv, issued, query, page>>
    /\ UNCHANGED <<resolverVars, uiVars, headerVars, requests>>

\* loadCriticalData's catch block: log and re-throw to the loader.
CriticalDataCatch ==
    /\ pc = "lcd_catch"
    /\ console' = console \cup {"[loadCriticalData] Unexpected error:"}
    /\ pc' = "loader_catch"
    /\ UNCHANGED <<locale, nodeEnv, issued, query, response, page>>
    /\ UNCHANGED <<resolverVars, uiVars, headerVars, requests>>

\* loader's catch block: log and answer with the minimal data.
LoaderCatchError ==
    /\ pc = "loader_catch"
    /\ console' = console \cup {"[Homepage Loader] Critical error:"}
    /\ response' = LoaderCatch(RequestUrl)
    /\ pc' = IF response'.kind = "returned" THEN "returned" ELSE "done"
    /\ UNCHANGED <<locale, nodeEnv, issued, query, page>>
    /\ UNCHANGED <<resolverVars, uiVars, headerVars, requests>>

\* Homepage renders the data the loader returned.
RenderHomepage ==
    /\ pc = "returned"
    /\ page' = Homepage(response.data)
    /\ pc' = "done"
    /\ UNCHANGED <<locale, nodeEnv, issued, query, response, console>>
    /\ UNCHANGED <<resolverVars, uiVars, headerVars, requests>>

LoaderNext ==
    \/ ValidateLocale
    \/ IssueQuery
    \/ QueryCallThrows
    \/ \E n \in DOMAIN query : Settle(n)
    \/ AwaitQueries
    \/ CriticalDataCatch
    \/ LoaderCatchError
    \/ RenderHomepage

ResolverSpec == ResolverInit /\ [][ResolverNext]_vars

LoaderSpec == LoaderInit /\ [][LoaderNext]_vars

(***************************************************************************)
(* The mounted components: a section component is rendered on a metaobject *)
(* and then receives its events (mount effects, scroll, clicks, hover,     *)
(* resize).  Every state update is followed by a re-render of the          *)
(* component on the same prop.                                             *)
(***************************************************************************)
MaxEntries == 5    \* most entries in the collection of a mounted section
MaxScrollY == 2    \* largest window.scrollY of a scroll event

\* a % n of JavaScript for a positive n: the result has the sign of a.
JsRem(a, n) == IF a >= 0 THEN a % n ELSE 0 - ((0 - a) % n)

\* array[k] for a zero-based k: undefined (Null) outside the array.
Nth(array, k) == IF k \in 0..(Len(array) - 1) THEN array[k + 1] ELSE Null

\* A plausible slip: the index is wrapped without first adding products.length, so
\* an offset left of index 0 gives a negative index and an undefined product.
VisibleProductsNoWrap(products, index) ==
    [k \in 1..5 |->
        LET i == k - 3
            product == Nth(products, JsRem(index + i, Len(products)))
        IN  IF product = Null
            THEN [offset |-> i, isActive |-> (i = 0)]
            ELSE [offset |-> i, isActive |-> (i = 0)] @@ product]

\* visibleProducts: the five entries at offsets -2..2 around currentIndex.
VisibleProducts(products, index) ==
    [k \in 1..5 |->
        LET i == k - 3
            product == Nth(products, JsRem(index + i + Len(products), Len(products)))
        IN  IF product = Null
            THEN [offset |-> i, isActive |-> (i = 0)]
            ELSE [offset |-> i, isActive |-> (i = 0)] @@ product]

\* A plausible slip: the carousel keeps the centre product first by reordering
\* its product list instead of indexing into it.
ProductCarouselRenderRotating(obj, index, mounted) ==
    LET shown == ProductCarousel(obj)
    IN  IF shown.verdict = "Ready"
        THEN [products |-> [k \in 1..Len(shown.products) |->
                               shown.products[((k - 1 + index) % Len(shown.products)) + 1]],
              visibleProducts |-> VisibleProducts(shown.products, index),
              centerProduct |-> Nth(shown.products, index),
              lightRays |-> mounted] @@ shown
        ELSE shown

\* A plausible slip: a hydration guard that returns nothing until the mount effect ran.
ProductCarouselRenderMountGated(obj, index, mounted) ==
    LET shown == ProductCarousel(obj)
    IN  IF ~mounted
        THEN [component |-> "ProductCarousel", verdict |-> "Empty", render |-> "null"]
        ELSE IF shown.verdict = "Ready"
        THEN [visibleProducts |-> VisibleProducts(shown.products, index),
              centerProduct |-> Nth(shown.products, index),
              lightRays |-> mounted] @@ shown
        ELSE shown

\* ProductCarousel rendered with its state: the branch it returns from and, in the
\* carousel itself, the window of visible products and the centre product.
ProductCarouselRender(obj, index, mounted) ==
    LET shown == ProductCarousel(obj)
    IN  IF shown.verdict = "Ready"
        THEN [visibleProducts |-> VisibleProducts(shown.products, index),
              centerProduct |-> Nth(shown.products, index),
              lightRays |-> mounted] @@ shown
        ELSE shown

\* reviews.forEach((review, index) => ...) from index on: the review is pushed to
\* column1 when index % 3 is 0, to column2 when it is 1, to column3 otherwise.
RECURSIVE SplitFrom(_, _, _)
SplitFrom(reviews, index, columns) ==
    IF index >= Len(reviews) THEN columns
    ELSE SplitFrom(reviews, index + 1,
                   [columns EXCEPT ![IF index % 3 = 0 THEN 1
                                     ELSE IF index % 3 = 1 THEN 2 ELSE 3] =
                                       Append(@, reviews[index + 1])])

\* A plausible slip: the columns are returned as split, without the duplication.
ColumnsOnce(reviews) == SplitFrom(reviews, 0, << <<>>, <<>>, <<>> >>)

\* [col1, col2, col3]: each column three times over.
Columns(reviews) ==
    LET columns == SplitFrom(reviews, 0, << <<>>, <<>>, <<>> >>)
    IN  [c \in 1..3 |-> columns[c] \o columns[c] \o columns[c]]

\* ReviewsSection rendered with its state.
ReviewsSectionRender(obj, hovered) ==
    LET shown == ReviewsSection(obj)
    IN  IF shown.verdict = "Ready"
        THEN [columns |-> Columns(shown.reviews), paused |-> hovered] @@ shown
        ELSE shown

\* HeroParallax rendered with its state.
HeroParallaxRender(obj, mounted) == [animate |-> mounted] @@ HeroParallax(obj)

\* The render of the mounted component in the given state.
Render(component, obj, index, mounted, hovered) ==
    CASE component = "ProductCarousel" -> ProductCarouselRender(obj, index, mounted)
      [] component = "ReviewsSection" -> ReviewsSectionRender(obj, hovered)
      [] component = "HeroParallax" -> HeroParallaxRender(obj, mounted)

\* The products and reviews the mounted sections are given.
SlideIds == <<"s1", "s2", "s3", "s4", "s5", "s6">>

Slides == [i \in 1..Len(SlideIds) |->
              [id |-> SlideIds[i], title |-> "Slide", handle |-> SlideIds[i],
               priceRange |-> [minVariantPrice |-> Money], featuredImage |-> Null]]

CardIds == <<"c1", "c2", "c3", "c4", "c5", "c6">>

Cards == [i \in 1..Len(CardIds) |->
             [id |-> CardIds[i], type |-> "review", handle |-> CardIds[i],
              fields |-> << [key |-> "customer_name", value |-> "Ann"],
                            [key |-> "rating", value |-> "5"] >>]]

\* A showcase entry with the first k slides, and a reviews entry with the first k cards.
ShowcaseOf(k) ==
    [id |-> "m2", type |-> "section_product_showcase", handle |-> "our-products",
     fields |-> << [key |-> "products", value |-> "[gid]",
                    references |-> [nodes |-> SubSeq(Slides, 1, k)]] >>]

ReviewsOf(k) ==
    [id |-> "m3", type |-> "section_reviews", handle |-> "what-our-customers-say",
     fields |-> << [key |-> "heading", value |-> "Reviews"],
                   [key |-> "reviews", value |-> "[gid]",
                    references |-> [nodes |-> SubSeq(Cards, 1, k)]] >>]

\* The props a component can be mounted on: ProductCarousel and ReviewsSection admit
\* null and a metaobject without fields, HeroParallax is given an object.
MountSamples(component) ==
    CASE component = "ProductCarousel" ->
            {Null, NoFieldsMetaobject} \cup {ShowcaseOf(k) : k \in 0..MaxEntries}
      [] component = "ReviewsSection" ->
            {Null, NoFieldsMetaobject} \cup {ReviewsOf(k) : k \in 0..MaxEntries}
      [] component = "HeroParallax" -> {NoFieldsMetaobject, HeroEntry}

Widths == {375, 768, 769, 1280}

\* The first render of a component on its prop, with the state useState gives it.
ComponentInit ==
    /\ \E component \in {"ProductCarousel", "ReviewsSection", "HeroParallax"} :
          /\ metaobject \in MountSamples(component)
          /\ view = Render(component, metaobject, 0, FALSE, NoColumn)
    /\ lookup = NoLookup
    /\ currentIndex = 0
    /\ prevIndex = 0
    /\ scrollDirection = "down"
    /\ isMounted = FALSE
    /\ lastScrollY = 0
    /\ scrollTimeout = NoTimer
    /\ effectStale = FALSE
    /\ hoveredColumn = NoColumn
    /\ isMobile = FALSE
    /\ innerWidth \in Widths
    /\ resizeTimeout = FALSE
    /\ BrowserIdle
    /\ HeaderIdle
    /\ LoaderIdle
    /\ requests = <<>>

\* ProductCarousel's effects after the first commit: setIsMounted(true), and in the
\* carousel itself the scroll listener is added.  The mount effect precedes the
\* early returns, so it also runs when the component returned its error or empty state.
CarouselMountEffects ==
    /\ view.component = "ProductCarousel"
    /\ ~isMounted
    /\ ~unmounted
    /\ isMounted' = TRUE
    /\ view' = Render("ProductCarousel", metaobject, currentIndex, TRUE, hoveredColumn)
    /\ UNCHANGED <<currentIndex, prevIndex, scrollDirection, lastScrollY, scrollTimeout,
                   effectStale, hoveredColumn, isMobile, innerWidth, resizeTimeout>>
    /\ UNCHANGED <<metaobject, lookup>>
    /\ UNCHANGED <<loaderVars, headerVars, requests, timerVars, parallaxVars>>

\* A plausible slip: the handle is overwritten or dropped without being cleared.
clearTimeoutForgotten(timers) == timers

cancelAnimationFrameForgotten(frames) == frames

\* clearTimeout(handle), cancelAnimationFrame(handle): of the pending timers the
\* handle refers to, the ones that stay pending: none.
clearTimeout(timers) == <<>>

cancelAnimationFrame(frames) == <<>>

\* The pending timer of scrollTimeout.current, of debouncedCheck's timeoutId and the
\* pending frame of rafRef.current, as the browser holds them.
ScrollTimers ==
    IF scrollTimeout.pending
    THEN << [callback |-> "setCurrentIndex", direction |-> scrollTimeout.direction,
             scrolled |-> 0] >>
    ELSE <<>>

ResizeTimers ==
    IF resizeTimeout
    THEN << [callback |-> "checkMobile", direction |-> "none", scrolled |-> 0] >>
    ELSE <<>>

Frames ==
    IF rafRef.pending
    THEN << [callback |-> "frame", direction |-> "none", scrolled |-> rafRef.scrolled] >>
    ELSE <<>>

\* Every timer and frame the browser will still run.
PendingTimers == ScrollTimers \o ResizeTimers \o Frames \o strayTimers

RemoveAt(seq, i) == SubSeq(seq, 1, i - 1) \o SubSeq(seq, i + 1, Len(seq))

\* handleScroll: the direction is recorded, and with the section in the viewport
\* the pending timer is cleared and replaced by a new 50 ms timer that carries the
\* direction.
HandleScroll(scrollY, inViewport) ==
    /\ view.component = "ProductCarousel"
    /\ view.verdict = "Ready"
    /\ isMounted
    /\ ~unmounted
    /\ strayTimers' = IF inViewport THEN strayTimers \o clearTimeout(ScrollTimers)
                                    ELSE strayTimers
    /\ LET direction == IF scrollY > lastScrollY THEN "down" ELSE "up"
       IN  /\ lastScrollY' = scrollY
           /\ scrollDirection' = direction
           /\ effectStale' = (effectStale \/ direction # scrollDirection)
           /\ scrollTimeout' = IF inViewport
                               THEN [pending |-> TRUE, direction |-> direction]
                               ELSE scrollTimeout
    /\ view' = Render("ProductCarousel", metaobject, currentIndex, isMounted, hoveredColumn)
    /\ UNCHANGED <<currentIndex, prevIndex, isMounted, hoveredColumn, isMobile, innerWidth,
                   resizeTimeout, unmounted>>
    /\ UNCHANGED <<metaobject, lookup>>
    /\ UNCHANGED <<loaderVars, headerVars, requests, parallaxVars>>

\* The scroll effect re-runs after scrollDirection changed: its cleanup clears the
\* pending timer and the listener is added again.
RerunScrollEffect ==
    /\ view.component = "ProductCarousel"
    /\ effectStale
    /\ ~unmounted
    /\ effectStale' = FALSE
    /\ strayTimers' = strayTimers \o clearTimeout(ScrollTimers)
    /\ scrollTimeout' = NoTimer
    /\ UNCHANGED <<currentIndex, prevIndex, scrollDirection, isMounted, lastScrollY,
                   hoveredColumn, isMobile, innerWidth, resizeTimeout, unmounted>>
    /\ UNCHANGED resolverVars
    /\ UNCHANGED <<loaderVars, headerVars, requests, parallaxVars>>

\* A plausible slip: the step forward stops at the last product instead of wrapping.
NextIndexSaturating(prev, length) == IF prev = length - 1 THEN prev ELSE prev + 1

\* (prev) => (prev + 1) % products.length
NextIndex(prev, length) == (prev + 1) % length

\* A plausible slip: the step back does not wrap at index 0.
PreviousIndexNoWrap(prev, length) == prev - 1

\* (prev) => (prev === 0 ? products.length - 1 : prev - 1)
PreviousIndex(prev, length) == IF prev = 0 THEN length - 1 ELSE prev - 1

\* The updater of the timer callback:
\* direction === 'down' ? (prev + 1) % products.length
\*                      : (prev === 0 ? products.length - 1 : prev - 1)
ScrollStep(prev, direction, length) ==
    IF direction = "down" THEN (prev + 1) % length
    ELSE IF prev = 0 THEN length - 1 ELSE prev - 1

\* The 50 ms timer fires: the index moves one step in the timer's direction.
ScrollTimerFires ==
    /\ view.component = "ProductCarousel"
    /\ LET pending == ScrollTimers \o strayTimers
       IN  \E i \in DOMAIN pending :
              /\ pending[i].callback = "setCurrentIndex"
              /\ IF i <= Len(ScrollTimers)
                 THEN /\ scrollTimeout' = NoTimer
                      /\ strayTimers' = strayTimers
                 ELSE /\ scrollTimeout' = scrollTimeout
                      /\ strayTimers' = RemoveAt(strayTimers, i - Len(ScrollTimers))
              /\ IF unmounted
                 THEN UNCHANGED <<currentIndex, prevIndex, view>>
                 ELSE /\ prevIndex' = currentIndex
                      /\ currentIndex' = ScrollStep(currentIndex, pending[i].direction,
                                                    Len(view.products))
                      /\ view' = Render("ProductCarousel", metaobject, currentIndex',
                                        isMounted, hoveredColumn)
    /\ UNCHANGED <<scrollDirection, isMounted, lastScrollY, effectStale, hoveredColumn,
                   isMobile, innerWidth, resizeTimeout, unmounted>>
    /\ UNCHANGED <<metaobject, lookup>>
    /\ UNCHANGED <<loaderVars, headerVars, requests, parallaxVars>>

\* handlePrevious: a click on the left arrow.
HandlePrevious ==
    /\ view.component = "ProductCarousel"
    /\ view.verdict = "Ready"
    /\ isMounted
    /\ ~unmounted
    /\ view.centerProduct # Null
    /\ prevIndex' = currentIndex
    /\ currentIndex' = PreviousIndex(currentIndex, Len(view.products))
    /\ view' = Render("ProductCarousel", metaobject, currentIndex', isMounted, hoveredColumn)
    /\ UNCHANGED <<scrollDirection, isMounted, lastScrollY, scrollTimeout, effectStale,
                   hoveredColumn, isMobile, innerWidth, resizeTimeout>>
    /\ UNCHANGED <<metaobject, lookup>>
    /\ UNCHANGED <<loaderVars, headerVars, requests, timerVars, parallaxVars>>

\* handleNext: a click on the right arrow.
HandleNext ==
    /\ view.component = "ProductCarousel"
    /\ view.verdict = "Ready"
    /\ isMounted
    /\ ~unmounted
    /\ view.centerProduct # Null
    /\ prevIndex' = currentIndex
    /\ currentIndex' = NextIndex(currentIndex, Len(view.products))
    /\ view' = Render("ProductCarousel", metaobject, currentIndex', isMounted, hoveredColumn)
    /\ UNCHANGED <<scrollDirection, isMounted, lastScrollY, scrollTimeout, effectStale,
                   hoveredColumn, isMobile, innerWidth, resizeTimeout>>
    /\ UNCHANGED <<metaobject, lookup>>
    /\ UNCHANGED <<loaderVars, headerVars, requests, timerVars, parallaxVars>>

\* handleColumnEnter(columnIndex): the pointer enters a review column.
HandleColumnEnter(columnIndex) ==
    /\ view.component = "ReviewsSection"
    /\ view.verdict = "Ready"
    /\ ~unmounted
    /\ hoveredColumn' = columnIndex
    /\ view' = Render("ReviewsSection", metaobject, currentIndex, isMounted, columnIndex)
    /\ UNCHANGED <<currentIndex, prevIndex, scrollDirection, isMounted, lastScrollY,
                   scrollTimeout, effectStale, isMobile, innerWidth, resizeTimeout>>
    /\ UNCHANGED <<metaobject, lookup>>
    /\ UNCHANGED <<loaderVars, headerVars, requests, timerVars, parallaxVars>>

\* handleColumnLeave: the pointer leaves a review column.
HandleColumnLeave ==
    /\ view.component = "ReviewsSection"
    /\ view.verdict = "Ready"
    /\ ~unmounted
    /\ hoveredColumn' = NoColumn
    /\ view' = Render("ReviewsSection", metaobject, currentIndex, isMounted, NoColumn)
    /\ UNCHANGED <<currentIndex, prevIndex, scrollDirection, isMounted, lastScrollY,
                   scrollTimeout, effectStale, isMobile, innerWidth, resizeTimeout>>
    /\ UNCHANGED <<metaobject, lookup>>
    /\ UNCHANGED <<loaderVars, headerVars, requests, timerVars, parallaxVars>>

\* The layers whose refs are set: the background layer is rendered only with a
\* background image; the factors are scrolled * 0.5 and scrolled * 0.2, held here in
\* tenths of a pixel.
Layers(v) == IF v.backgroundImage # Null THEN {"bg", "content"} ELSE {"content"}

Factor(layer) == IF layer = "bg" THEN 5 ELSE 2

Transforms(scrolled, v) ==
    [written |-> TRUE, translate |-> [layer \in Layers(v) |-> Factor(layer) * scrolled]]

\* A plausible slip: the position is read when the frame is requested.
FrameScrolledAtRequest(frame, current) == frame.scrolled

\* const scrolled = window.pageYOffset, read inside the frame callback.
FrameScrolled(frame, current) == current

\* requestAnimationFrame in handleScroll: ticking is set and rafRef.current is
\* overwritten with the new frame.
RequestedFrame(scrolled) == [pending |-> TRUE, scrolled |-> scrolled]

\* HeroParallax's effects after the first commit: setIsMounted(true), checkMobile()
\* and the resize listener, and the parallax effect with the isMobile of the first
\* render (false): the scroll listener and the initial handleScroll().
HeroMountEffects ==
    /\ view.component = "HeroParallax"
    /\ ~isMounted
    /\ ~unmounted
    /\ isMounted' = TRUE
    /\ isMobile' = (innerWidth <= 768)
    /\ parallaxIsMobile' = FALSE
    /\ ticking' = TRUE
    /\ rafRef' = RequestedFrame(pageYOffset)
    /\ strayTimers' = strayTimers \o Frames
    /\ view' = Render("HeroParallax", metaobject, currentIndex, TRUE, hoveredColumn)
    /\ UNCHANGED <<currentIndex, prevIndex, scrollDirection, lastScrollY, scrollTimeout,
                   effectStale, hoveredColumn, innerWidth, resizeTimeout, unmounted,
                   pageYOffset, transform>>
    /\ UNCHANGED <<metaobject, lookup>>
    /\ UNCHANGED <<loaderVars, headerVars, requests>>

\* The window is resized: debouncedCheck clears the pending 150 ms timer and sets a
\* new one.
Resize(width) ==
    /\ view.component = "HeroParallax"
    /\ isMounted
    /\ ~unmounted
    /\ innerWidth' = width
    /\ strayTimers' = strayTimers \o clearTimeout(ResizeTimers)
    /\ resizeTimeout' = TRUE
    /\ UNCHANGED <<currentIndex, prevIndex, scrollDirection, isMounted, lastScrollY,
                   scrollTimeout, effectStale, hoveredColumn, isMobile, unmounted>>
    /\ UNCHANGED resolverVars
    /\ UNCHANGED <<loaderVars, headerVars, requests, parallaxVars>>

\* A 150 ms timer fires: checkMobile.  setIsMobile on an unmounted component does
\* nothing.
CheckMobile ==
    /\ view.component = "HeroParallax"
    /\ LET pending == ResizeTimers \o strayTimers
       IN  \E i \in DOMAIN pending :
              /\ pending[i].callback = "checkMobile"
              /\ IF i <= Len(ResizeTimers)
                 THEN /\ resizeTimeout' = FALSE
                      /\ strayTimers' = strayTimers
                 ELSE /\ resizeTimeout' = resizeTimeout
                      /\ strayTimers' = RemoveAt(strayTimers, i - Len(ResizeTimers))
    /\ IF unmounted
       THEN UNCHANGED <<isMobile, view>>
       ELSE /\ isMobile' = (innerWidth <= 768)
            /\ view' = Render("HeroParallax", metaobject, currentIndex, isMounted,
                              hoveredColumn)
    /\ UNCHANGED <<currentIndex, prevIndex, scrollDirection, isMounted, lastScrollY,
                   scrollTimeout, effectStale, hoveredColumn, innerWidth, unmounted>>
    /\ UNCHANGED <<metaobject, lookup>>
    /\ UNCHANGED <<loaderVars, headerVars, requests, parallaxVars>>

\* The window scrolls.  While the parallax effect last ran with isMobile false its
\* listener is attached: handleScroll returns when ticking, and otherwise sets
\* ticking and requests a frame.
HeroHandleScroll(scrollY) ==
    /\ view.component = "HeroParallax"
    /\ isMounted
    /\ ~unmounted
    /\ pageYOffset' = scrollY
    /\ IF ~parallaxIsMobile /\ ~ticking
       THEN /\ ticking' = TRUE
            /\ rafRef' = RequestedFrame(scrollY)
            /\ strayTimers' = strayTimers \o Frames
       ELSE UNCHANGED <<ticking, rafRef, strayTimers>>
    /\ UNCHANGED <<currentIndex, prevIndex, scrollDirection, isMounted, lastScrollY,
                   scrollTimeout, effectStale, hoveredColumn, isMobile, innerWidth,
                   resizeTimeout, unmounted, transform, parallaxIsMobile>>
    /\ UNCHANGED resolverVars
    /\ UNCHANGED <<loaderVars, headerVars, requests>>

\* An animation frame runs: the transforms of the scroll position are written to the
\* layers whose refs are set (none after the unmount), and the effect's ticking is
\* reset.
FrameRuns ==
    /\ view.component = "HeroParallax"
    /\ LET pending == Frames \o strayTimers
       IN  \E i \in DOMAIN pending :
              /\ pending[i].callback = "frame"
              /\ IF i <= Len(Frames)
                 THEN /\ rafRef' = NoFrame
                      /\ ticking' = FALSE
                      /\ strayTimers' = strayTimers
                 ELSE /\ UNCHANGED <<rafRef, ticking>>
                      /\ strayTimers' = RemoveAt(strayTimers, i - Len(Frames))
              /\ transform' = IF unmounted THEN transform
                              ELSE Transforms(FrameScrolled(pending[i], pageYOffset), view)
    /\ UNCHANGED <<currentIndex, prevIndex, scrollDirection, isMounted, lastScrollY,
                   scrollTimeout, effectStale, hoveredColumn, isMobile, innerWidth,
                   resizeTimeout, unmounted, pageYOffset, parallaxIsMobile>>
    /\ UNCHANGED resolverVars
    /\ UNCHANGED <<loaderVars, headerVars, requests>>

\* The parallax effect re-runs after isMobile changed.  The run that had isMobile
\* false returned a cleanup: the listener is removed and the frame of rafRef.current
\* cancelled.  The new run returns at once when isMobile, and otherwise adds the
\* listener and calls handleScroll() with a fresh ticking.
RerunParallaxEffect ==
    /\ view.component = "HeroParallax"
    /\ isMounted
    /\ ~unmounted
    /\ isMobile # parallaxIsMobile
    /\ parallaxIsMobile' = isMobile
    /\ IF isMobile
       THEN /\ strayTimers' = strayTimers \o cancelAnimationFrame(Frames)
            /\ rafRef' = NoFrame
            /\ ticking' = FALSE
       ELSE /\ strayTimers' = strayTimers \o Frames
            /\ rafRef' = RequestedFrame(pageYOffset)
            /\ ticking' = TRUE
    /\ UNCHANGED <<currentIndex, prevIndex, scrollDirection, isMounted, lastScrollY,
                   scrollTimeout, effectStale, hoveredColumn, isMobile, innerWidth,
                   resizeTimeout, unmounted, pageYOffset, transform>>
    /\ UNCHANGED resolverVars
    /\ UNCHANGED <<loaderVars, headerVars, requests>>

\* The component is removed from the tree: the cleanups of its effects run.  The
\* carousel's clears scrollTimeout.current; the hero's clear timeoutId and, when the
\* parallax effect last ran with isMobile false, cancel the frame of rafRef.current.
Unmount ==
    /\ isMounted
    /\ ~unmounted
    /\ unmounted' = TRUE
    /\ strayTimers' = strayTimers \o clearTimeout(ScrollTimers) \o clearTimeout(ResizeTimers)
                         \o (IF parallaxIsMobile THEN Frames
                             ELSE cancelAnimationFrame(Frames))
    /\ scrollTimeout' = NoTimer
    /\ resizeTimeout' = FALSE
    /\ rafRef' = NoFrame
    /\ UNCHANGED <<currentIndex, prevIndex, scrollDirection, isMounted, lastScrollY,
                   effectStale, hoveredColumn, isMobile, innerWidth, ticking, pageYOffset,
                   transform, parallaxIsMobile>>
    /\ UNCHANGED resolverVars
    /\ UNCHANGED <<loaderVars, headerVars, requests>>

ComponentNext ==
    \/ CarouselMountEffects
    \/ \E scrollY \in 0..MaxScrollY, inViewport \in BOOLEAN : HandleScroll(scrollY, inViewport)
    \/ RerunScrollEffect
    \/ ScrollTimerFires
    \/ HandlePrevious
    \/ HandleNext
    \/ \E columnIndex \in 0..2 : HandleColumnEnter(columnIndex)
    \/ HandleColumnLeave
    \/ HeroMountEffects
    \/ \E width \in Widths : Resize(width)
    \/ CheckMobile
    \/ \E scrollY \in 0..MaxScrollY : HeroHandleScroll(scrollY)
    \/ FrameRuns
    \/ RerunParallaxEffect
    \/ Unmount

ComponentSpec == ComponentInit /\ [][ComponentNext]_vars

\* A timer that has been set and is not cleared runs: the browser fires the 150 ms
\* timer of debouncedCheck.
ComponentFairSpec == ComponentSpec /\ WF_vars(CheckMobile)

(***************************************************************************)
(* Two homepage requests served together.  Each call of loader has its own *)
(* arguments and locals; the module holds no variable, only constants.     *)
(* The requests share the console and process.env.                         *)
(***************************************************************************)
Urls == {RequestUrl, "https://store.example/?ref=mail"}

\* The requests in flight.
Served == {1, 2}

\* A request that passed the locale check and is about to issue its queries.
NewRequest(url) ==
    [url |-> url, pc |-> "issue", issued |-> 0,
     query |-> [n \in {QueryNames[i] : i \in 1..Len(QueryNames)} |-> Idle],
     response |-> NoResponse]

\* What a query of a served request settles with.
ServedOutcomes(q) ==
    IF q = "shop"
    THEN {Fulfilled([shop |-> FetchedShop]), Rejected}
    ELSE {Fulfilled([metaobject |-> FetchedEntry(q)]), Rejected}

\* A plausible slip: the critical data is kept in a module-level variable once a
\* request has computed it, and later requests are answered from it.
ServedDataMemoized(reqs, r) ==
    IF \E o \in DOMAIN reqs : o # r /\ reqs[o].response.kind = "returned"
    THEN LET o == CHOOSE o \in DOMAIN reqs : o # r /\ reqs[o].response.kind = "returned"
         IN  reqs[o].response.data
    ELSE CriticalData(reqs[r].query, reqs[r].url)

\* The critical data of request r: computed from the locals of its own call.
ServedData(reqs, r) == CriticalData(reqs[r].query, reqs[r].url)

ServedInit ==
    /\ requests \in {<<NewRequest(RequestUrl), NewRequest(url)>> : url \in Urls}
    /\ nodeEnv \in {"development", "production"}
    /\ console = {}
    /\ locale = Undefined
    /\ pc = "idle"
    /\ issued = 0
    /\ query = [n \in {QueryNames[i] : i \in 1..Len(QueryNames)} |-> Idle]
    /\ response = NoResponse
    /\ page = NoPage
    /\ ResolverIdle
    /\ UiIdle
    /\ HeaderIdle

\* Request r makes its next context.storefront.query(...) call.
ServedIssueQuery(r) ==
    /\ requests[r].pc = "issue"
    /\ requests[r].issued < Len(QueryNames)
    /\ requests' =
          [requests EXCEPT
              ![r].issued = @ + 1,
              ![r].query[QueryNames[requests[r].issued + 1]] = Pending,
              ![r].pc = IF requests[r].issued + 1 = Len(QueryNames) THEN "await" ELSE "issue"]
    /\ UNCHANGED <<locale, nodeEnv, pc, issued, query, response, console, page>>
    /\ UNCHANGED <<resolverVars, uiVars, headerVars>>

\* The next query call of request r throws inside loadCriticalData's try block.
ServedQueryCallThrows(r) ==
    /\ requests[r].pc = "issue"
    /\ requests[r].issued < Len(QueryNames)
    /\ requests' = [requests EXCEPT ![r].pc = "lcd_catch"]
    /\ UNCHANGED <<locale, nodeEnv, pc, issued, query, response, console, page>>
    /\ UNCHANGED <<resolverVars, uiVars, headerVars>>

\* A pending query of request r settles.
ServedSettle(r, n) ==
    /\ requests[r].query[n].status = "pending"
    /\ \E outcome \in ServedOutcomes(n) :
          requests' = [requests EXCEPT ![r].query[n] = outcome]
    /\ UNCHANGED <<locale, nodeEnv, pc, issued, query, response, console, page>>
    /\ UNCHANGED <<resolverVars, uiVars, headerVars>>

\* Request r passes its await: the slots are extracted and the loader returns.
ServedAwaitQueries(r) ==
    /\ requests[r].pc = "await"
    /\ AwaitAllSettled(requests[r].query) = "resolved"
    /\ requests' =
          [requests EXCEPT
              ![r].response = [kind |-> "returned", status |-> 200,
                               data |-> ServedData(requests, r)],
              ![r].pc = "returned"]
    /\ console' = console \cup DevelopmentErrors(nodeEnv, requests[r].query)
    /\ UNCHANGED <<locale, nodeEnv, pc, issued, query, response, page>>
    /\ UNCHANGED <<resolverVars, uiVars, headerVars>>

\* loadCriticalData's catch block in request r: log and re-throw.
ServedCriticalDataCatch(r) ==
    /\ requests[r].pc = "lcd_catch"
    /\ requests' = [requests EXCEPT ![r].pc = "loader_catch"]
    /\ console' = console \cup {"[loadCriticalData] Unexpected error:"}
    /\ UNCHANGED <<locale, nodeEnv, pc, issued, query, response, page>>
    /\ UNCHANGED <<resolverVars, uiVars, headerVars>>

\* loader's catch block in request r: log and answer with the minimal data.
ServedLoaderCatch(r) ==
    /\ requests[r].pc = "loader_catch"
    /\ requests' = [requests EXCEPT ![r].response = LoaderCatch(requests[r].url),
                                    ![r].pc = "returned"]
    /\ console' = console \cup {"[Homepage Loader] Critical error:"}
    /\ UNCHANGED <<locale, nodeEnv, pc, issued, query, response, page>>
    /\ UNCHANGED <<resolverVars, uiVars, headerVars>>

ServedNext ==
    \/ \E r \in Served : ServedIssueQuery(r)
    \/ \E r \in Served : ServedQueryCallThrows(r)
    \/ \E r \in Served, n \in Sections \cup {"shop"} : ServedSettle(r, n)
    \/ \E r \in Served : ServedAwaitQueries(r)
    \/ \E r \in Served : ServedCriticalDataCatch(r)
    \/ \E r \in Served : ServedLoaderCatch(r)

ServedSpec == ServedInit /\ [][ServedNext]_vars

(***************************************************************************)
(* The header of the page layout: the cart and menu drawers and the effect *)
(* that opens the cart drawer while a product is being added to the cart.  *)
(* useDrawer and useCartFetchers are not part of the sources at hand: a    *)
(* drawer is taken to be a boolean that openDrawer sets and closeDrawer    *)
(* resets, and useCartFetchers(action) to return the fetchers in flight    *)
(* whose form carries that cart action.                                    *)
(***************************************************************************)
CartActions == {"LinesAdd", "LinesUpdate"}

\* useCartFetchers(CartForm.ACTIONS.LinesAdd)
useCartFetchers(fs, actionName) ==
    {k \in DOMAIN fs : fs[k].state # "idle" /\ fs[k].action = actionName}

\* A plausible slip: the effect toggles the drawer.
CartDrawerEffectToggle(open, addToCartFetchers) ==
    IF addToCartFetchers = {} THEN open ELSE ~open

\* if (isCartOpen || !addToCartFetchers.length) return; openCart();
CartDrawerEffect(open, addToCartFetchers) ==
    IF open \/ addToCartFetchers = {} THEN open ELSE TRUE

\* The header is mounted: its first render is committed and its effect is to run.
HeaderInit ==
    /\ fetchers = [k \in 1..MaxFetchers |-> IdleFetcher]
    /\ isCartOpen = FALSE
    /\ isMenuOpen = FALSE
    /\ cartEffectPending = TRUE
    /\ LoaderIdle
    /\ ResolverIdle
    /\ UiIdle
    /\ requests = <<>>

\* A cart form is submitted through a fetcher.  An effect of the last commit runs
\* before the next render, so every update waits for it.
SubmitCartForm(k, actionName) ==
    /\ ~cartEffectPending
    /\ fetchers[k].state = "idle"
    /\ fetchers' = [fetchers EXCEPT ![k] = [state |-> "submitting", action |-> actionName]]
    /\ cartEffectPending' = TRUE
    /\ UNCHANGED <<isCartOpen, isMenuOpen>>
    /\ UNCHANGED <<loaderVars, resolverVars, uiVars, requests>>

\* A fetcher in flight moves on: the action answered and the loaders revalidate,
\* then the fetcher is idle again.
FetcherProgress(k) ==
    /\ ~cartEffectPending
    /\ fetchers[k].state # "idle"
    /\ fetchers' = [fetchers EXCEPT ![k] =
                       IF @.state = "submitting" THEN [@ EXCEPT !.state = "loading"]
                       ELSE IdleFetcher]
    /\ cartEffectPending' = TRUE
    /\ UNCHANGED <<isCartOpen, isMenuOpen>>
    /\ UNCHANGED <<loaderVars, resolverVars, uiVars, requests>>

\* A click on the cart badge: openCart().
OpenCart ==
    /\ ~cartEffectPending
    /\ ~isCartOpen
    /\ isCartOpen' = TRUE
    /\ cartEffectPending' = TRUE
    /\ UNCHANGED <<fetchers, isMenuOpen>>
    /\ UNCHANGED <<loaderVars, resolverVars, uiVars, requests>>

\* The cart drawer's onClose: closeCart().
CloseCart ==
    /\ ~cartEffectPending
    /\ isCartOpen
    /\ isCartOpen' = FALSE
    /\ cartEffectPending' = TRUE
    /\ UNCHANGED <<fetchers, isMenuOpen>>
    /\ UNCHANGED <<loaderVars, resolverVars, uiVars, requests>>

\* A click on the menu button: openMenu().
OpenMenu ==
    /\ ~cartEffectPending
    /\ ~isMenuOpen
    /\ isMenuOpen' = TRUE
    /\ cartEffectPending' = TRUE
    /\ UNCHANGED <<fetchers, isCartOpen>>
    /\ UNCHANGED <<loaderVars, resolverVars, uiVars, requests>>

\* The menu drawer's onClose: closeMenu().
CloseMenu ==
    /\ ~cartEffectPending
    /\ isMenuOpen
    /\ isMenuOpen' = FALSE
    /\ cartEffectPending' = TRUE
    /\ UNCHANGED <<fetchers, isCartOpen>>
    /\ UNCHANGED <<loaderVars, resolverVars, uiVars, requests>>

\* The effect of the last commit runs; when it calls openCart() the header renders
\* again and the effect is due once more.
RunCartDrawerEffect ==
    /\ cartEffectPending
    /\ isCartOpen' = CartDrawerEffect(isCartOpen, useCartFetchers(fetchers, "LinesAdd"))
    /\ cartEffectPending' = (isCartOpen' # isCartOpen)
    /\ UNCHANGED <<fetchers, isMenuOpen>>
    /\ UNCHANGED <<loaderVars, resolverVars, uiVars, requests>>

HeaderNext ==
    \/ \E k \in 1..MaxFetchers, actionName \in CartActions : SubmitCartForm(k, actionName)
    \/ \E k \in 1..MaxFetchers : FetcherProgress(k)
    \/ OpenCart
    \/ CloseCart
    \/ OpenMenu
    \/ CloseMenu
    \/ RunCartDrawerEffect

HeaderSpec == HeaderInit /\ [][HeaderNext]_vars

\* React runs the effect of every commit.
HeaderFairSpec == HeaderSpec /\ WF_vars(RunCartDrawerEffect)

(***************************************************************************)
(* Properties of the resolver (checked under ResolverSpec).                *)
(***************************************************************************)

\* The raw reference list the rendered component projects.
RawNodes(component) ==
    getFieldReferences(metaobject, IF component = "ProductCarousel" THEN "products"
                                   ELSE "reviews")

\* The indices of the raw nodes that satisfy the component's entry predicate.
Complete(component) ==
    {j \in 1..Len(RawNodes(component)) :
        IF component = "ProductCarousel"
        THEN LET n == RawNodes(component)[j]
             IN  n # Null /\ Str(n, "id") \notin {"", Undefined}
                 /\ Str(n, "title") \notin {"", Undefined}
                 /\ "priceRange" \in DOMAIN n
        ELSE LET n == RawNodes(component)[j]
             IN  n # Null /\ "fields" \in DOMAIN n}

\* C4 (as claimed): the verdict of ProductCarousel and ReviewsSection is a total
\* three-way classification: Absent exactly when the metaobject or its field
\* list is missing, Empty exactly when the fields exist and no entry of the
\* required collection survives the projection, Ready otherwise.
C4_TotalClassification ==
    view.component \in {"ProductCarousel", "ReviewsSection"} =>
        /\ view.verdict \in {"Absent", "Empty", "Ready"}
        /\ view.verdict = "Absent" <=>
              (metaobject = Null \/ "fields" \notin DOMAIN metaobject)
        /\ view.verdict = "Empty" <=>
              /\ metaobject # Null
              /\ "fields" \in DOMAIN metaobject
              /\ Complete(view.component) = {}

C6_NeverThrows ==
    (metaobject # Null /\ "fields" \in DOMAIN metaobject) => view.verdict # "Throws"

\* The fields of the metaobject whose key is exactly the looked-up key.
Matching == {i \in 1..Len(metaobject.fields) :
                /\ metaobject.fields[i] # Null
                /\ metaobject.fields[i].key = lookup.key}

FirstMatching == CHOOSE i \in Matching : \A j \in Matching : i <= j

\* C7: getFieldValue(k) is "" exactly when no field has key k (compared exactly,
\* case included) or the first such field has the value ""; otherwise it is that
\* field's value, unmodified.
C7_FieldValue ==
    (lookup # NoLookup /\ "fields" \in DOMAIN metaobject) =>
        /\ lookup.value = "" <=>
              (Matching = {} \/ metaobject.fields[FirstMatching].value = "")
        /\ lookup.value # "" => lookup.value = metaobject.fields[FirstMatching].value

C7_Witness ==
    /\ lookup # NoLookup
    /\ lookup.key = "heading"
    /\ lookup.value = "WELCOME"
    /\ metaobject.fields = << [key |-> "Heading", value |-> "Upper"],
                              [key |-> "heading", value |-> "WELCOME"] >>

\* C8: with duplicate keys, the value, the reference and the references the
\* accessors return are those of the first field with that key; later fields
\* with the key never change the result.
C8_FirstMatchWins ==
    (lookup # NoLookup /\ "fields" \in DOMAIN metaobject /\ Cardinality(Matching) >= 2) =>
        LET first == metaobject.fields[FirstMatching]
        IN  /\ lookup.value = first.value
            /\ lookup.reference =
                  (IF "reference" \in DOMAIN first THEN first.reference ELSE Null)
            /\ lookup.references =
                  (IF /\ "references" \in DOMAIN first
                      /\ first.references # Null
                      /\ "nodes" \in DOMAIN first.references
                   THEN first.references.nodes
                   ELSE <<>>)

C8_Witness ==
    /\ lookup # NoLookup
    /\ lookup.key = "heading"
    /\ lookup.value = ""
    /\ "fields" \in DOMAIN metaobject
    /\ metaobject.fields = << [key |-> "heading", value |-> ""],
                              [key |-> "heading", value |-> "SECOND"] >>

\* C9: getFieldReferences(k) is always a sequence, and it is the empty sequence
\* when no field has key k, when the matched field has no references, and when
\* its references list is empty: the three cases give the caller the same value.
C9_ReferencesIsSequence ==
    (lookup # NoLookup /\ "fields" \in DOMAIN metaobject) =>
        /\ lookup.references # UndefinedList
        /\ Matching = {} => lookup.references = <<>>
        /\ (Matching # {} /\ ~HasObj(metaobject.fields[FirstMatching], "references"))
              => lookup.references = <<>>
        /\ (/\ Matching # {}
            /\ HasObj(metaobject.fields[FirstMatching], "references")
            /\ "nodes" \in DOMAIN metaobject.fields[FirstMatching].references
            /\ Len(metaobject.fields[FirstMatching].references.nodes) = 0)
              => lookup.references = <<>>

C9_Witness ==
    /\ lookup # NoLookup
    /\ lookup.key = "products"
    /\ "fields" \in DOMAIN metaobject
    /\ Matching # {}
    /\ metaobject.fields[FirstMatching] =
          [key |-> "products", value |-> "", references |-> Null]
    /\ lookup.references = <<>>

\* The projected entries of a rendered collection component (none when Empty).
Projected == IF view.verdict = "Ready"
             THEN IF view.component = "ProductCarousel" THEN view.products
                  ELSE view.reviews
             ELSE <<>>

\* C10: the products (and the reviews) a component derived are no more than the
\* raw references, are in the raw list's relative order, and none of them comes
\* from a reference that fails the entry predicate.
C10_ProjectionOrder ==
    (view.component \in {"ProductCarousel", "ReviewsSection"}
        /\ view.verdict \in {"Empty", "Ready"}) =>
        LET in == RawNodes(view.component)
            out == Projected
        IN  /\ Len(out) <= Len(in)
            /\ \E g \in [1..Len(out) -> 1..Len(in)] :
                  /\ \A i, j \in 1..Len(out) : i < j => g[i] < g[j]
                  /\ \A i \in 1..Len(out) :
                        /\ g[i] \in Complete(view.component)
                        /\ out[i].id = in[g[i]].id
            /\ \A j \in 1..Len(in) :
                  (j \notin Complete(view.component) /\ in[j] # Null
                        /\ "id" \in DOMAIN in[j])
                     => \A i \in 1..Len(out) : out[i].id # in[j].id

C10_Witness ==
    /\ view.component = "ProductCarousel"
    /\ view.verdict = "Ready"
    /\ RawNodes("ProductCarousel") = <<ProductNoTitle, ProductB, ProductA>>
    /\ Len(view.products) = 2
    /\ view.products[1].id = "p2"
    /\ view.products[2].id = "p1"

(***************************************************************************)
(* Properties of the homepage loader (checked under LoaderSpec).           *)
(***************************************************************************)

\* The slot of the loader data that the query of section n fills.
SlotOf(data, n) ==
    CASE n = "hero" -> data.heroParallax
      [] n = "products" -> data.productShowcase
      [] n = "reviews" -> data.reviewsSection

\* The metaobject the query of section n fulfilled with, Null when it has none.
OwnMetaobject(n) ==
    IF /\ query[n].status = "fulfilled"
       /\ query[n].value # Null
       /\ "metaobject" \in DOMAIN query[n].value
    THEN query[n].value.metaobject
    ELSE Null

\* C1: once the four queries are issued, whatever each settles with, the request
\* never enters a catch block and the loader returns a normal response in which
\* every section slot is that query's own metaobject, or null without one; the
\* page then shows every null slot as Absent and the fetched showcase as Ready.
C1_PartialDegradation ==
    issued = Len(QueryNames) =>
        /\ pc \notin {"lcd_catch", "loader_catch"}
        /\ response.kind \in {"none", "returned"}
        /\ pc \in {"returned", "done"} => response.kind = "returned"
        /\ response.kind = "returned" =>
              /\ response.status = 200
              /\ \A n \in Sections : SlotOf(response.data, n) = OwnMetaobject(n)
        /\ page.rendered =>
              /\ \A n \in Sections :
                    OwnMetaobject(n) = Null =>
                        /\ page[n].component = "Homepage"
                        /\ page[n].verdict = "Absent"
              /\ OwnMetaobject("products") = ShowcaseEntry =>
                    /\ page.products.verdict = "Ready"
                    /\ Len(page.products.products) = 2

C1_Witness ==
    /\ query["hero"].status = "rejected"
    /\ query["products"] = Fulfilled([metaobject |-> ShowcaseEntry])
    /\ response.kind = "returned"
    /\ response.status = 200
    /\ response.data.heroParallax = Null
    /\ response.data.productShowcase = ShowcaseEntry
    /\ page.rendered
    /\ page.hero.verdict = "Absent"
    /\ page.products.verdict = "Ready"

\* C2 (as claimed): for every section, the loader result when the section's query
\* rejects differs from the result the same request gets when that query
\* fulfils with metaobject = null.
C2_RejectionDistinct ==
    (response.kind = "returned" /\ issued = Len(QueryNames)) =>
        \A n \in Sections :
            query[n].status = "rejected" =>
                response.data #
                    CriticalData([query EXCEPT ![n] = Fulfilled([metaobject |-> Null])],
                                 RequestUrl)

\* C3: when loadCriticalData throws, the loader does not pass the error on: it
\* returns the minimal data (shop "Store", the three sections null, an seo
\* payload) as a normal response.
C3_CatchReturnsMinimal ==
    "[loadCriticalData] Unexpected error:" \in console =>
        /\ response.kind \in {"none", "returned"}
        /\ pc \in {"loader_catch", "returned", "done"}
        /\ pc \in {"returned", "done"} =>
              /\ response.kind = "returned"
              /\ response.status = 200
              /\ DOMAIN response.data =
                    {"shop", "heroParallax", "productShowcase", "reviewsSection", "seo"}
              /\ response.data.shop = [name |-> "Store", description |-> ""]
              /\ response.data.heroParallax = Null
              /\ response.data.productShowcase = Null
              /\ response.data.reviewsSection = Null

C3_Witness ==
    /\ "[loadCriticalData] Unexpected error:" \in console
    /\ "[Homepage Loader] Critical error:" \in console
    /\ locale = "EN-US"
    /\ issued = 2
    /\ response.kind = "returned"
    /\ response.data.shop.name = "Store"
    /\ page.rendered
    /\ page.reviews.verdict = "Absent"

(***************************************************************************)
(* Properties of the derived view models (checked under ResolverSpec).     *)
(***************************************************************************)

\* The indices of the raw review nodes that have a field list without a
\* customer_name field.
Nameless ==
    {j \in 1..Len(RawNodes("ReviewsSection")) :
        LET n == RawNodes("ReviewsSection")[j]
        IN  /\ n # Null
            /\ "fields" \in DOMAIN n
            /\ \A i \in 1..Len(n.fields) :
                  n.fields[i] # Null => n.fields[i].key # "customer_name"}

\* C11 (as claimed): a review entry whose customer_name field is missing is
\* dropped from the reviews of the view model: no derived review comes from it,
\* so it never appears with an empty name or a generated avatar.
C11_NamelessReviewDropped ==
    (view.component = "ReviewsSection" /\ view.verdict \in {"Empty", "Ready"}) =>
        \A j \in Nameless :
            \A i \in 1..Len(Projected) :
                Projected[i].id # RawNodes("ReviewsSection")[j].id

\* C12 (as claimed): every product of a Ready product showcase has a non-empty
\* id, a non-empty title and a price, that is a minVariantPrice with an amount
\* and a currencyCode; no incomplete node is surfaced as a partial entry.
C12_ProductsComplete ==
    (view.component = "ProductCarousel" /\ view.verdict = "Ready") =>
        \A i \in 1..Len(view.products) :
            /\ view.products[i].id \notin {"", Undefined}
            /\ view.products[i].title \notin {"", Undefined}
            /\ view.products[i].priceRange.minVariantPrice.amount \notin {"", Undefined}
            /\ view.products[i].priceRange.minVariantPrice.currencyCode
                  \notin {"", Undefined}

\* C13 (as claimed): every text field of a Ready view model is a string, never
\* undefined, and is "" when the metaobject (or the entry) has no field for it:
\* hero heading, subheading, ctaText and ctaUrl; showcase heading and each
\* product's title and handle; reviews heading and each review's name, role and text.
C13_TextFieldsDefaultEmpty ==
    /\ (view.component = "HeroParallax" /\ view.verdict = "Ready") =>
          /\ \A f \in {"heading", "subheading", "ctaText", "ctaUrl"} :
                view[f] # Undefined
          /\ FindField(metaobject, "heading") = Null => view.heading = ""
          /\ FindField(metaobject, "subheading") = Null => view.subheading = ""
          /\ FindField(metaobject, "cta_text") = Null => view.ctaText = ""
          /\ FindField(metaobject, "cta_url_new") = Null => view.ctaUrl = ""
    /\ (view.component = "ProductCarousel" /\ view.verdict = "Ready") =>
          /\ view.heading # Undefined
          /\ FindField(metaobject, "heading") = Null => view.heading = ""
          /\ \A i \in 1..Len(view.products) :
                /\ view.products[i].title # Undefined
                /\ view.products[i].handle # Undefined
    /\ (view.component = "ReviewsSection" /\ view.verdict = "Ready") =>
          /\ view.heading # Undefined
          /\ FindField(metaobject, "heading") = Null => view.heading = ""
          /\ \A i \in 1..Len(view.reviews) :
                /\ view.reviews[i].customerName # Undefined
                /\ view.reviews[i].customerRole # Undefined
                /\ view.reviews[i].reviewText # Undefined

\* The indices of the metaobject's fields with key background_image.
BackgroundFields ==
    IF "fields" \in DOMAIN metaobject
    THEN {i \in 1..Len(metaobject.fields) :
            /\ metaobject.fields[i] # Null
            /\ metaobject.fields[i].key = "background_image"}
    ELSE {}

FirstBackgroundField ==
    metaobject.fields[CHOOSE i \in BackgroundFields : \A j \in BackgroundFields : i <= j]

\* The background_image field exists, has a reference, and the reference carries
\* an image payload.
HasImagePayload ==
    /\ BackgroundFields # {}
    /\ "reference" \in DOMAIN FirstBackgroundField
    /\ FirstBackgroundField.reference # Null
    /\ "image" \in DOMAIN FirstBackgroundField.reference
    /\ FirstBackgroundField.reference.image # Null

\* C14: rendering the hero on a metaobject always completes, and its
\* backgroundImage is null exactly when the background_image field is missing,
\* has no reference, or its reference carries no image; otherwise it is the
\* image made of that reference's url, altText ("" without one), width and height.
C14_BackgroundImage ==
    view.component = "HeroParallax" =>
        /\ view.verdict = "Ready"
        /\ view.backgroundImage = Null <=> ~HasImagePayload
        /\ HasImagePayload =>
              LET image == FirstBackgroundField.reference.image
              IN  view.backgroundImage =
                     [url |-> image.url,
                      altText |-> IF "altText" \in DOMAIN image THEN image.altText ELSE "",
                      width |-> image.width,
                      height |-> image.height]

C14_Witness ==
    /\ view.component = "HeroParallax"
    /\ "fields" \in DOMAIN metaobject
    /\ metaobject.fields =
          << [key |-> "background_image", value |-> "gid", reference |-> ImageRefNoAlt],
             [key |-> "background_image", value |-> "gid", reference |-> VideoRef] >>
    /\ view.backgroundImage =
          [url |-> "plain.jpg", altText |-> "", width |-> "640", height |-> "480"]

\* C18 (as claimed): whatever section is rendered, an Absent verdict shows a
\* diagnostic or placeholder element, and an Empty verdict shows nothing.
C18_RenderPerVerdict ==
    /\ view.verdict = "Absent" =>
          view.render \in {"product-carousel-error", "section-placeholder"}
    /\ view.verdict = "Empty" => view.render = "null"

(***************************************************************************)
(* Properties of the fan-out and of the loader result (under LoaderSpec).  *)
(***************************************************************************)

\* C17: once the four queries are issued, as long as one of them is pending
\* loadCriticalData is still at its await, with no result, no error and no page,
\* whatever the others settled with and in whatever order; and every slot of a
\* result is a settled value: a shop, a metaobject or null, never a promise.
C17_NoShortCircuit ==
    issued = Len(QueryNames) =>
        /\ (\E n \in DOMAIN query : query[n].status = "pending") =>
              /\ pc = "await"
              /\ response = NoResponse
              /\ page = NoPage
        /\ response.kind = "returned" =>
              /\ \A n \in DOMAIN query : Settled(query[n])
              /\ "status" \notin DOMAIN response.data.shop
              /\ \A n \in Sections : "status" \notin DOMAIN SlotOf(response.data, n)

C17_Witness ==
    /\ issued = Len(QueryNames)
    /\ query["shop"] = Rejected
    /\ query["hero"] = Rejected
    /\ query["products"] = Fulfilled([metaobject |-> ShowcaseEntry])
    /\ query["reviews"] = Pending
    /\ pc = "await"
    /\ response = NoResponse

\* C20: every loader result has a shop slot. After the fan-in it is the fetched
\* shop when the shop query fulfilled with a shop, and {name: 'Store',
\* description: ''} when it rejected or fulfilled without one; whichever it is,
\* each section slot is still that section's own metaobject (or null).
C20_ShopSlot ==
    response.kind = "returned" =>
        /\ "shop" \in DOMAIN response.data
        /\ response.data.shop # Null
        /\ DOMAIN response.data.shop = {"name", "description"}
        /\ issued = Len(QueryNames) =>
              /\ response.data.shop =
                    (IF /\ query["shop"].status = "fulfilled"
                        /\ query["shop"].value # Null
                        /\ query["shop"].value.shop # Null
                     THEN query["shop"].value.shop
                     ELSE [name |-> "Store", description |-> ""])
              /\ \A n \in Sections : SlotOf(response.data, n) = OwnMetaobject(n)

C20_Witness ==
    /\ response.kind = "returned"
    /\ issued = Len(QueryNames)
    /\ query["shop"] = Fulfilled([shop |-> Null])
    /\ response.data.shop = [name |-> "Store", description |-> ""]
    /\ response.data.heroParallax = HeroEntry
    /\ response.data.productShowcase = ShowcaseEntry
    /\ response.data.reviewsSection = ReviewsEntry

(***************************************************************************)
(* Properties of the mounted components (checked under ComponentSpec).     *)
(***************************************************************************)

\* C15: the verdict a section got at its first render (Absent, Empty or Ready)
\* is terminal: no event of the mounted component (mount effects, scroll, scroll
\* timer, previous/next click, column enter/leave, resize) and no re-render it
\* causes changes the verdict.
C15_VerdictTerminal ==
    [][/\ view.verdict \in {"Absent", "Empty", "Ready"}
       /\ view'.verdict = view.verdict
       /\ view'.component = view.component]_vars

C15_Witness ==
    /\ view.component = "ProductCarousel"
    /\ view.verdict = "Ready"
    /\ metaobject = ShowcaseOf(3)
    /\ isMounted
    /\ scrollDirection = "up"
    /\ prevIndex = 0
    /\ currentIndex = 2

\* C16: no event of the carousel, the reviews section or the hero changes the
\* metaobject or the view model derived from it: the heading and the products
\* (or reviews) of a Ready section are the same after the event as before, and
\* so are its verdict and the element it renders; only the state the component
\* keeps (index, direction, mounted, hovered column, timers) changes.
C16_ViewModelNotMutated ==
    [][/\ metaobject' = metaobject
       /\ lookup' = lookup
       /\ view'.render = view.render
       /\ view.verdict = "Ready" =>
             /\ view'.heading = view.heading
             /\ view.component = "ProductCarousel" => view'.products = view.products
             /\ view.component = "ReviewsSection" => view'.reviews = view.reviews]_vars

C16_Witness ==
    /\ view.component = "ProductCarousel"
    /\ view.verdict = "Ready"
    /\ isMounted
    /\ currentIndex = 1
    /\ prevIndex = 2
    /\ scrollDirection = "down"
    /\ view.centerProduct.id = "s2"
    /\ Len(view.products) = 3
    /\ view.products[1].id = "s1"
    /\ view.products[2].id = "s2"
    /\ view.products[3].id = "s3"

(***************************************************************************)
(* Properties of requests served together (checked under ServedSpec).      *)
(***************************************************************************)

\* What request r got of its own: its url, what its queries settled with, and
\* whether it left loadCriticalData through the catch blocks.
OwnInputs(r) ==
    [url |-> requests[r].url, query |-> requests[r].query,
     threw |-> (requests[r].issued < Len(QueryNames))]

\* C19: in every interleaving of two homepage requests, the result the loader
\* returns for a request is determined by that request's own url and own four
\* query outcomes (the minimal data when its own call threw), and two requests
\* with the same url and outcomes get the same result.
C19_RequestIsolation ==
    /\ \A r \in Served :
          requests[r].response.kind = "returned" =>
              requests[r].response =
                 (IF OwnInputs(r).threw
                  THEN LoaderCatch(requests[r].url)
                  ELSE [kind |-> "returned", status |-> 200,
                        data |-> CriticalData(requests[r].query, requests[r].url)])
    /\ \A r, o \in Served :
          (/\ requests[r].response.kind = "returned"
           /\ requests[o].response.kind = "returned"
           /\ OwnInputs(r) = OwnInputs(o))
             => requests[r].response = requests[o].response

C19_Witness ==
    /\ requests[1].response.kind = "returned"
    /\ requests[2].response.kind = "returned"
    /\ requests[1].url = requests[2].url
    /\ requests[1].query["hero"] = Rejected
    /\ requests[2].query["hero"] = Fulfilled([metaobject |-> HeroEntry])
    /\ requests[1].query["products"] = requests[2].query["products"]
    /\ requests[1].response.data.heroParallax = Null
    /\ requests[2].response.data.heroParallax = HeroEntry

(***************************************************************************)
(* Properties of the carousel window and navigation (under ComponentSpec). *)
(***************************************************************************)

\* C21: in a Ready carousel of n >= 1 products, whatever the current index, the
\* window has exactly five entries with the offsets -2, -1, 0, 1, 2 in this
\* order; the entry at offset d is the product at (currentIndex + d) mod n, a
\* product of the list even when n is smaller than the window; the one active
\* entry is the one at offset 0, and it is the centre product products[currentIndex].
C21_VisibleWindow ==
    (view.component = "ProductCarousel" /\ view.verdict = "Ready") =>
        LET n == Len(view.products)
            window == view.visibleProducts
        IN  /\ n >= 1
            /\ Len(window) = 5
            /\ \A k \in 1..5 :
                  /\ window[k].offset = k - 3
                  /\ window[k].isActive = (k = 3)
                  /\ "id" \in DOMAIN window[k]
                  /\ window[k] =
                        [offset |-> k - 3, isActive |-> (k = 3)]
                            @@ view.products[((currentIndex + k - 3) % n) + 1]
            /\ view.centerProduct = view.products[currentIndex + 1]
            /\ window[3].id = view.centerProduct.id

C21_Witness ==
    /\ view.component = "ProductCarousel"
    /\ view.verdict = "Ready"
    /\ Len(view.products) = 2
    /\ currentIndex = 1
    /\ view.visibleProducts[1].id = "s2"
    /\ view.visibleProducts[2].id = "s1"
    /\ view.visibleProducts[3].id = "s2"
    /\ view.visibleProducts[4].id = "s1"
    /\ view.visibleProducts[5].id = "s2"

\* The zero-based positions of the reviews that belong to column c (1..3).
PositionsOf(c) == {i \in 0..(Len(view.reviews) - 1) : i % 3 = c - 1}

\* C22: in a Ready reviews section the review at position i is in column i mod 3
\* and in no other; each column is its reviews in their original order, three
\* times over, so every review has exactly three cards and there are three
\* times as many cards as reviews; a column no position falls in is empty.
C22_ReviewColumns ==
    (view.component = "ReviewsSection" /\ view.verdict = "Ready") =>
        LET reviews == view.reviews
            columns == view.columns
        IN  /\ Len(reviews) >= 1
            /\ Len(columns) = 3
            /\ \A c \in 1..3 :
                  LET m == Cardinality(PositionsOf(c))
                  IN  /\ Len(columns[c]) = 3 * m
                      /\ \A j \in 1..(3 * m) :
                            columns[c][j] = reviews[(c - 1) + 3 * ((j - 1) % m) + 1]
            /\ \A i \in 0..(Len(reviews) - 1) :
                  \A c \in 1..3 :
                      Cardinality({j \in 1..Len(columns[c]) :
                                      columns[c][j].id = reviews[i + 1].id})
                         = (IF c = (i % 3) + 1 THEN 3 ELSE 0)
            /\ Len(columns[1]) + Len(columns[2]) + Len(columns[3]) = 3 * Len(reviews)

C22_Witness ==
    /\ view.component = "ReviewsSection"
    /\ view.verdict = "Ready"
    /\ Len(view.reviews) = 4
    /\ hoveredColumn = 1
    /\ view.paused = 1
    /\ Len(view.columns[1]) = 6
    /\ view.columns[1][1].id = "c1"
    /\ view.columns[1][2].id = "c4"
    /\ view.columns[1][3].id = "c1"
    /\ Len(view.columns[2]) = 3
    /\ view.columns[2][3].id = "c2"
    /\ Len(view.columns[3]) = 3

\* C23: in a Ready carousel of n products, after any interleaving of next and
\* previous clicks and scroll-timer firings in either direction, currentIndex
\* (and prevIndex) is an integer in 0..n-1 and the centre product is the
\* product at currentIndex, never undefined.
C23_IndexInRange ==
    (view.component = "ProductCarousel" /\ view.verdict = "Ready") =>
        /\ currentIndex \in 0..(Len(view.products) - 1)
        /\ prevIndex \in 0..(Len(view.products) - 1)
        /\ view.centerProduct # Null
        /\ view.centerProduct = view.products[currentIndex + 1]

C23_Witness ==
    /\ view.component = "ProductCarousel"
    /\ view.verdict = "Ready"
    /\ Len(view.products) = 5
    /\ prevIndex = 0
    /\ currentIndex = 4
    /\ view.centerProduct.id = "s5"
    /\ scrollDirection = "up"
    /\ ~scrollTimeout.pending

\* k consecutive handleNext (handlePrevious) updates from index i in a list of n.
RECURSIVE NextTimes(_, _, _)
NextTimes(k, i, n) == IF k = 0 THEN i ELSE NextTimes(k - 1, NextIndex(i, n), n)

RECURSIVE PreviousTimes(_, _, _)
PreviousTimes(k, i, n) == IF k = 0 THEN i ELSE PreviousTimes(k - 1, PreviousIndex(i, n), n)

\* C24: at every index a Ready carousel of n products reaches, next then
\* previous and previous then next give the index back (at 0 and n-1 too), n
\* times next and n times previous give it back, the timer's step for a
\* downward scroll is the step of next and its step for an upward scroll is the
\* step of previous; and every click and timer firing moves the index by
\* exactly that step.
C24_CyclicBijection ==
    [][(view.component = "ProductCarousel" /\ view.verdict = "Ready") =>
          LET n == Len(view.products)
              i == currentIndex
          IN  /\ PreviousIndex(NextIndex(i, n), n) = i
              /\ NextIndex(PreviousIndex(i, n), n) = i
              /\ NextTimes(n, i, n) = i
              /\ PreviousTimes(n, i, n) = i
              /\ ScrollStep(i, "down", n) = NextIndex(i, n)
              /\ ScrollStep(i, "up", n) = PreviousIndex(i, n)
              /\ HandleNext => currentIndex' = NextIndex(i, n)
              /\ HandlePrevious => currentIndex' = PreviousIndex(i, n)
              /\ (ScrollTimerFires /\ scrollTimeout.direction = "down")
                    => currentIndex' = NextIndex(i, n)
              /\ (ScrollTimerFires /\ scrollTimeout.direction = "up")
                    => currentIndex' = PreviousIndex(i, n)
              /\ currentIndex' \in {i, NextIndex(i, n), PreviousIndex(i, n)}]_vars

C24_Witness ==
    /\ view.component = "ProductCarousel"
    /\ view.verdict = "Ready"
    /\ Len(view.products) = 3
    /\ prevIndex = 2
    /\ currentIndex = 0
    /\ view.centerProduct.id = "s1"
    /\ isMounted

(***************************************************************************)
(* Properties of the timers, frames and effect cleanups (under             *)
(* ComponentSpec).                                                         *)
(***************************************************************************)

\* C25: while the carousel stays mounted, the 50 ms timer of an in-viewport scroll
\* event is not lost: it stays pending (possibly replaced by the timer of a later
\* scroll event) until it fires and moves currentIndex one step in its direction.
\* This is what "every settled scroll eventually changes currentIndex" needs of each
\* step, the first event after a change of direction included.
C25_SettledScrollSteps ==
    [][(/\ view.component = "ProductCarousel"
        /\ scrollTimeout.pending
        /\ ~scrollTimeout'.pending
        /\ ~unmounted')
          => /\ currentIndex' = ScrollStep(currentIndex, scrollTimeout.direction,
                                           Len(view.products))
             /\ prevIndex' = currentIndex]_vars

\* The pending timers whose callback is the carousel's setCurrentIndex.
PendingScrollTimers == SelectSeq(PendingTimers, LAMBDA t : t.callback = "setCurrentIndex")

\* C26: in the carousel at most one scroll timer is pending in any state; a scroll
\* event in the viewport leaves currentIndex alone and leaves exactly the timer of
\* its own direction pending, so that a burst moves the index at most once, by the
\* last event; a scroll event outside the viewport leaves the timers as they were;
\* and after the unmount no scroll timer is pending and currentIndex stays.
C26_ScrollTimerDiscipline ==
    [][view.component = "ProductCarousel" =>
          /\ Len(PendingScrollTimers) <= 1
          /\ Len(PendingScrollTimers') <= 1
          /\ (\E scrollY \in 0..MaxScrollY : HandleScroll(scrollY, TRUE))
                => /\ currentIndex' = currentIndex
                   /\ PendingScrollTimers' =
                         << [callback |-> "setCurrentIndex",
                             direction |-> scrollDirection', scrolled |-> 0] >>
          /\ (\E scrollY \in 0..MaxScrollY : HandleScroll(scrollY, FALSE))
                => /\ currentIndex' = currentIndex
                   /\ PendingScrollTimers' = PendingScrollTimers
          /\ unmounted' => PendingScrollTimers' = <<>>
          /\ unmounted => currentIndex' = currentIndex]_vars

C26_Witness ==
    /\ view.component = "ProductCarousel"
    /\ view.verdict = "Ready"
    /\ unmounted
    /\ currentIndex = 1
    /\ prevIndex = 2
    /\ scrollDirection = "up"
    /\ lastScrollY = 1

\* The pending animation frames.
PendingFrames == SelectSeq(PendingTimers, LAMBDA t : t.callback = "frame")

\* What C27 says of the frames apart from the mobile case: at most one frame is
\* pending, and a scroll event that finds one pending requests nothing; a frame that
\* runs writes the transforms of window.pageYOffset as it is then; after the cleanup
\* of the parallax effect (the unmount, or the re-run with isMobile true) no frame is
\* pending, and after the unmount no transform is written.
ParallaxFrameDiscipline ==
    /\ Len(PendingFrames) <= 1
    /\ Len(PendingFrames') <= 1
    /\ ((\E scrollY \in 0..MaxScrollY : HeroHandleScroll(scrollY)) /\ PendingFrames # <<>>)
          => /\ rafRef' = rafRef
             /\ PendingFrames' = PendingFrames
    /\ (FrameRuns /\ ~unmounted) => transform' = Transforms(pageYOffset, view)
    /\ (Unmount \/ (RerunParallaxEffect /\ isMobile)) => PendingFrames' = <<>>
    /\ unmounted => /\ PendingFrames = <<>>
                    /\ transform' = transform

\* C27 as stated: the frame discipline, and while the state isMobile is true no
\* scroll event requests a frame or writes a transform.
C27_ParallaxWhileIsMobile ==
    [][view.component = "HeroParallax" =>
          /\ ParallaxFrameDiscipline
          /\ (isMobile /\ \E scrollY \in 0..MaxScrollY : HeroHandleScroll(scrollY))
                => /\ rafRef' = rafRef
                   /\ transform' = transform]_vars

\* What holds of the mobile case instead: the frame discipline, and once the
\* parallax effect has re-run with isMobile true no frame is pending, no scroll
\* event requests one and no transform is written, until the effect runs again with
\* isMobile false.
ParallaxOffAfterRerun ==
    [][view.component = "HeroParallax" =>
          /\ ParallaxFrameDiscipline
          /\ parallaxIsMobile
                => /\ PendingFrames = <<>>
                   /\ transform' = transform
                   /\ (\E scrollY \in 0..MaxScrollY : HeroHandleScroll(scrollY))
                         => rafRef' = rafRef]_vars

(***************************************************************************)
(* Mobile detection (under ComponentFairSpec).                             *)
(***************************************************************************)

\* The pending timers whose callback is checkMobile.
PendingChecks == SelectSeq(PendingTimers, LAMBDA t : t.callback = "checkMobile")

\* C28: in the mounted hero isMobile equals (innerWidth <= 768) whenever no check is
\* pending, from the mount effects on; a resize event leaves isMobile alone and
\* leaves exactly one check pending, however many came before it; a pending check
\* leads to isMobile = (innerWidth <= 768) unless the hero is unmounted first; and
\* after the unmount no check is pending and isMobile stays.
C28_MobileDetection ==
    /\ []((view.component = "HeroParallax" /\ isMounted /\ ~unmounted /\ PendingChecks = <<>>)
             => isMobile = (innerWidth <= 768))
    /\ [][view.component = "HeroParallax" =>
             /\ Len(PendingChecks') <= 1
             /\ (\E width \in Widths : Resize(width))
                   => /\ isMobile' = isMobile
                      /\ Len(PendingChecks') = 1
             /\ unmounted' => PendingChecks' = <<>>
             /\ unmounted => isMobile' = isMobile]_vars
    /\ (view.component = "HeroParallax" /\ ~unmounted /\ PendingChecks # <<>>)
          ~> (unmounted \/ (PendingChecks = <<>> /\ isMobile = (innerWidth <= 768)))

C28_Witness ==
    /\ view.component = "HeroParallax"
    /\ isMounted
    /\ ~unmounted
    /\ isMobile
    /\ innerWidth = 769
    /\ resizeTimeout
    /\ parallaxIsMobile

(***************************************************************************)
(* Locale validation (under LoaderSpec).                                   *)
(***************************************************************************)

\* C29: once the loader is past its locale check, a locale that is present and is
\* not "en-us" in any letter case has left a thrown 404 and nothing else: no query
\* was issued, nothing was logged, no minimal data was returned and no page
\* rendered; an absent locale, or "en-us" in any letter case, never leaves a 404.
C29_LocaleValidatedFirst ==
    LET present == locale \notin {Undefined, ""}
        matches == locale \in {"en-us", "EN-US", "En-Us"}
    IN  pc # "validate" =>
           IF present /\ ~matches
           THEN /\ response = [kind |-> "thrown", status |-> 404]
                /\ pc = "done"
                /\ issued = 0
                /\ \A n \in DOMAIN query : query[n] = Idle
                /\ console = {}
                /\ page = NoPage
           ELSE /\ response # [kind |-> "thrown", status |-> 404]
                /\ pc = "done" => response.kind = "returned"

C29_Witness ==
    /\ locale = "FR-CA"
    /\ pc = "done"
    /\ response = [kind |-> "thrown", status |-> 404]
    /\ issued = 0

(***************************************************************************)
(* The cart drawer (under HeaderFairSpec).                                 *)
(***************************************************************************)

\* The fetchers in flight whose form is an add-to-cart.
AddToCartInFlight ==
    {k \in DOMAIN fetchers : /\ fetchers[k].state \in {"submitting", "loading"}
                             /\ fetchers[k].action = "LinesAdd"}

====
